---- MODULE Spec2Model ----
(***************************************************************************)
(* Model of the multicopter attitude / rate control core                   *)
(* (mc_att_control_main.cpp): the rate controller, the three UDE variants, *)
(* the attitude law and the run() loop that schedules them.                *)
(*                                                                         *)
(* Numbers.  A C++ float is modelled as a fixed-point integer with Unit    *)
(* steps per 1.0 (so 1.0f is Unit, 0.1f is Unit \div 10), finite up to     *)
(* FltMax in magnitude, together with the three non-finite values PInf,    *)
(* NInf and NaN.  A result that exceeds FltMax overflows to an infinity,   *)
(* as a float does at FLT_MAX; products and quotients round toward zero.   *)
(* Times (hrt_abstime, dt) are integers in microseconds; a float times or  *)
(* divided by dt goes through USEC_PER_SEC (the source's "/ 1e6f").        *)
(* Vectors are functions on 0..2 (roll, pitch, yaw), as in the source.     *)
(***************************************************************************)
EXTENDS Integers, Sequences, FiniteSets, TLC

VARIABLES
    mc,        \* the MulticopterAttitudeControl object (its member fields)
    now,       \* hrt_absolute_time(): the monotonic clock, microseconds
    last_run,  \* run(): time of the last processed gyro sample
    task_start,      \* run(): the clock when the task started
    dt_accumulator,  \* run(): dt summed for the loop-rate estimate, microseconds
    loop_counter,    \* run(): iterations counted for the loop-rate estimate
    dt,        \* run(): the dt of the last processed sample, microseconds
    pret,      \* run(): what the last px4_poll returned (0 before the first)
    pubs,      \* messages published by the last step, in order
    op,        \* which operation the last step executed (history)
    should_exit,  \* ModuleBase: a stop of the task has been requested
    subs,      \* the uORB subscriptions run() holds open
    pc,        \* run(): "head" (the while test), "wait" (in px4_poll), "returned"
    arrived    \* uORB: the messages the last processed iteration found published (history)

vars == <<mc, now, last_run, task_start, dt_accumulator, loop_counter, dt, pret, pubs, op,
          should_exit, subs, pc, arrived>>

-----------------------------------------------------------------------------
(* Bounds of the model *)

Unit == 20
FltMax == 2000
MaxNow == 200000
MaxSamples == 3

-----------------------------------------------------------------------------
(* Floats *)

PInf == FltMax + 1
NInf == -(FltMax + 1)
NaN == FltMax + 2


IsNaN(x) == x = NaN
IsInf(x) == x = PInf \/ x = NInf
PX4_ISFINITE(x) == x >= -FltMax /\ x <= FltMax

\* integer quotient rounded toward zero (b > 0)
TDiv(a, b) == IF a >= 0 THEN a \div b ELSE -((-a) \div b)

\* the float nearest an exact result: overflow gives an infinity
Rnd(v) == IF v > FltMax THEN PInf ELSE IF v < -FltMax THEN NInf ELSE v

Sgn(x) == IF x > 0 THEN 1 ELSE IF x < 0 THEN -1 ELSE 0

FNeg(a) == IF IsNaN(a) THEN NaN ELSE -a

FAdd(a, b) ==
    IF IsNaN(a) \/ IsNaN(b) THEN NaN
    ELSE IF IsInf(a) THEN (IF b = -a THEN NaN ELSE a)
    ELSE IF IsInf(b) THEN b
    ELSE Rnd(a + b)

FSub(a, b) == FAdd(a, FNeg(b))

FMul(a, b) ==
    IF IsNaN(a) \/ IsNaN(b) THEN NaN
    ELSE IF IsInf(a) \/ IsInf(b)
         THEN (IF a = 0 \/ b = 0 THEN NaN
               ELSE IF Sgn(a) * Sgn(b) > 0 THEN PInf ELSE NInf)
    ELSE Rnd(TDiv(a * b, Unit))

FDiv(a, b) ==
    IF IsNaN(a) \/ IsNaN(b) THEN NaN
    ELSE IF IsInf(a) THEN (IF IsInf(b) THEN NaN
                           ELSE IF Sgn(a) * (IF b < 0 THEN -1 ELSE 1) > 0
                                THEN PInf ELSE NInf)
    ELSE IF IsInf(b) THEN 0
    ELSE IF b = 0 THEN (IF a = 0 THEN NaN ELSE IF a > 0 THEN PInf ELSE NInf)
    ELSE Rnd(Sgn(b) * TDiv(a * Unit, IF b < 0 THEN -b ELSE b))

\* comparisons: every comparison with a NaN is false
FLt(a, b) == ~IsNaN(a) /\ ~IsNaN(b) /\ a < b
FGt(a, b) == FLt(b, a)

fabsf(a) == IF IsNaN(a) THEN NaN ELSE IF a < 0 THEN -a ELSE a
fminf(a, b) == IF IsNaN(a) THEN b ELSE IF IsNaN(b) THEN a ELSE IF a < b THEN a ELSE b
fmaxf(a, b) == IF IsNaN(a) THEN b ELSE IF IsNaN(b) THEN a ELSE IF a > b THEN a ELSE b

\* math::min, math::max, math::constrain (mathlib): plain comparisons, so a
\* NaN argument is decided by the comparison failing
MathMin(a, b) == IF FLt(a, b) THEN a ELSE b
MathMax(a, b) == IF FGt(a, b) THEN a ELSE b
Constrain(val, lo, hi) == IF FLt(val, lo) THEN lo ELSE IF FGt(val, hi) THEN hi ELSE val

\* a float times / divided by a dt held in microseconds
USEC_PER_SEC == 1000000
FMulDt(a, d) ==
    IF IsNaN(a) THEN NaN ELSE IF IsInf(a) THEN a ELSE Rnd(TDiv(a * d, USEC_PER_SEC))
FDivDt(a, d) ==
    IF IsNaN(a) THEN NaN ELSE IF IsInf(a) THEN a ELSE Rnd(TDiv(a * USEC_PER_SEC, d))

\* a float times the rational constant n / d
FMulRat(a, n, d) ==
    IF IsNaN(a) THEN NaN ELSE IF IsInf(a) THEN a ELSE Rnd(TDiv(a * n, d))

-----------------------------------------------------------------------------
(* Vectors (matrix::Vector3f) *)

AXIS_INDEX_ROLL == 0
AXIS_INDEX_PITCH == 1
AXIS_INDEX_YAW == 2
AXIS_COUNT == 3
Axes == 0 .. (AXIS_COUNT - 1)
Vec3(x, y, z) == (0 :> x) @@ (1 :> y) @@ (2 :> z)
Zero3 == Vec3(0, 0, 0)
\* a vector given by a rule, tabulated at once
Tab(f) == Vec3(f[0], f[1], f[2])
VAdd(u, v) == Tab([i \in Axes |-> FAdd(u[i], v[i])])
VSub(u, v) == Tab([i \in Axes |-> FSub(u[i], v[i])])
Emult(u, v) == Tab([i \in Axes |-> FMul(u[i], v[i])])
MatVec(m, v) ==
    Tab([i \in Axes |-> FAdd(FAdd(FMul(m[i][0], v[0]), FMul(m[i][1], v[1])), FMul(m[i][2], v[2]))])
Identity3 == Vec3(Vec3(Unit, 0, 0), Vec3(0, Unit, 0), Vec3(0, 0, Unit))
\* a pair of per-axis objects (roll, pitch)
Pair(a, b) == (0 :> a) @@ (1 :> b)

-----------------------------------------------------------------------------
(* Program constants *)

MIN_TAKEOFF_THRUST == Unit \div 10       \* 0.1f
TPA_RATE_LOWER_LIMIT == Unit \div 20     \* 0.05f
INT_LIMIT == Unit                        \* 1.0f
DT_MIN == 200                            \* 0.0002f s
DT_MAX == 20000                          \* 0.02f s
POLL_TIMEOUT == 100000                   \* px4_poll(.., 100) ms
POLL_ERROR_SLEEP == 100000               \* usleep(100000)
\* small physical constants are held in thousandths and applied with MulMilli
Ixx == 10                                \* 0.01f
Iyy == 10                                \* 0.01f
Izz == 15                                \* 0.015f
MOTOR_ALPHA == 40                        \* 0.04f
MulMilli(k, x) == FMulRat(x, k, 1000)

-----------------------------------------------------------------------------
(* Parameters (ModuleParams).  Per-axis parameters (_roll_rate_i,           *)
(* _pitch_rate_i, _yaw_rate_i, ...) are held as one vector each.            *)

Params0 ==
    [ input_source |-> 0, use_platform |-> 0, switch_ude |-> 0, switch_mixer |-> 0,
      switch_td |-> 0,
      ude_T_filter |-> Unit, Tf |-> Unit, Tf1 |-> Unit, Tf2 |-> Unit, T_torque |-> Unit,
      Kp_ude |-> 2 * Unit, Kd_ude |-> Unit, Km_ude |-> Unit, T_ude |-> Unit,
      att_p |-> Vec3(2 * Unit, 2 * Unit, 2 * Unit),
      rate_p |-> Vec3(Unit, Unit, Unit),
      rate_i |-> Vec3(25 * Unit, 25 * Unit, 25 * Unit),
      rate_integ_lim |-> Vec3(Unit, Unit, Unit),
      rate_d |-> Zero3,
      rate_ff |-> Zero3,
      d_term_cutoff_freq |-> 0,
      rate_max |-> Vec3(220, 220, 200),            \* whole degrees per second
      yaw_auto_max |-> 45,
      acro_max |-> Vec3(720, 720, 540),
      acro_expo_rp |-> 0, acro_superexpo_rp |-> 0, acro_expo_y |-> 0, acro_superexpo_y |-> 0,
      rattitude_thres |-> (4 * Unit) \div 5,
      tpa_breakpoint_p |-> Unit, tpa_breakpoint_i |-> Unit, tpa_breakpoint_d |-> Unit,
      tpa_rate_p |-> 0, tpa_rate_i |-> 0, tpa_rate_d |-> 0,
      yaw_ff |-> Unit \div 2,
      vtol_wv_yaw_rate_scale |-> Unit \div 4,
      bat_scale_en |-> FALSE,
      cbrk_rate_ctrl |-> FALSE ]

-----------------------------------------------------------------------------
(* Messages (uORB topics) as the controller caches them *)

ControlMode0 ==
    [ flag_armed |-> FALSE,
      flag_control_attitude_enabled |-> FALSE,
      flag_control_rates_enabled |-> FALSE,
      flag_control_manual_enabled |-> FALSE,
      flag_control_velocity_enabled |-> FALSE,
      flag_control_auto_enabled |-> FALSE,
      flag_control_rattitude_enabled |-> FALSE,
      flag_control_termination_enabled |-> FALSE ]

VehicleStatus0 == [ is_rotary_wing |-> TRUE, is_vtol |-> FALSE ]

Saturation0 ==
    [ roll_pos |-> FALSE, roll_neg |-> FALSE, pitch_pos |-> FALSE,
      pitch_neg |-> FALSE, yaw_pos |-> FALSE, yaw_neg |-> FALSE ]

SensorCorrection0 ==
    [ selected_gyro_instance |-> 0,
      gyro_offset |-> Tab([g \in 0 .. 2 |-> Zero3]),
      gyro_scale |-> Tab([g \in 0 .. 2 |-> Vec3(Unit, Unit, Unit)]) ]

RatesSp0 == [ roll |-> 0, pitch |-> 0, yaw |-> 0, thrust |-> 0 ]

Quat(w, x, y, z) == (0 :> w) @@ (1 :> x) @@ (2 :> y) @@ (3 :> z)
QuatIdentity == Quat(Unit, 0, 0, 0)

Attitude0 == [ q |-> QuatIdentity ]
AttitudeSp0 ==
    [ q_d |-> QuatIdentity, thrust |-> 0, yaw_sp_move_rate |-> 0,
      disable_mc_yaw_control |-> FALSE, landing_gear |-> 0 ]
Battery0 == [ scale |-> 0 ]
\* the actuator_controls message: channels 0 to 3 and the landing gear on channel 7
Actuators(c0, c1, c2, c3, c7) == (0 :> c0) @@ (1 :> c1) @@ (2 :> c2) @@ (3 :> c3) @@ (7 :> c7)
Manual0 == [ x |-> 0, y |-> 0, z |-> 0, r |-> 0 ]

-----------------------------------------------------------------------------
(* Quaternions, Euler angles and elementary functions (matrix library and   *)
(* libm).  Exact on the axis-aligned unit quaternions; elsewhere the         *)
(* elementary functions are their low-order series.                          *)

F3(a, b, c) == FAdd(FAdd(a, b), c)
F4(a, b, c, e) == FAdd(F3(a, b, c), e)

\* integer square root by bisection
RECURSIVE ISqrtIn(_, _, _)
ISqrtIn(n, lo, hi) ==
    IF hi - lo <= 1 THEN lo
    ELSE LET mid == (lo + hi) \div 2
         IN IF mid * mid <= n THEN ISqrtIn(n, mid, hi) ELSE ISqrtIn(n, lo, mid)

sqrtf(a) ==
    IF IsNaN(a) \/ a < 0 THEN NaN
    ELSE IF a = PInf THEN PInf
    ELSE ISqrtIn(a * Unit, 0, FltMax + 1)

\* math::signNoZero
signNoZero(x) == (IF FLt(x, 0) THEN 0 ELSE IF IsNaN(x) THEN 0 ELSE Unit) - (IF FLt(x, 0) THEN Unit ELSE 0)

\* sinf, cosf: series about 0
sinf(x) == FSub(x, FMulRat(FMul(FMul(x, x), x), 1, 6))
cosf(x) == FSub(Unit, FMulRat(FMul(x, x), 1, 2))
\* cosf(w * acosf(x)) and sinf(w * asinf(x)) for a weight w in [0, 1]: exact at w = 0
\* and w = 1, interpolated between
CosWeightedAcos(w, x) == FAdd(Unit, FMul(w, FSub(x, Unit)))
SinWeightedAsin(w, x) == FMul(w, x)
\* asinf, atan2f: exact at the axis points, first-order elsewhere
HALF_PI == (Unit * 355) \div 226
asinf(x) ==
    IF IsNaN(x) \/ FGt(fabsf(x), Unit) THEN NaN
    ELSE IF x = Unit THEN HALF_PI ELSE IF x = -Unit THEN -HALF_PI ELSE x
atan2f(y, x) ==
    IF IsNaN(y) \/ IsNaN(x) THEN NaN
    ELSE IF y = 0 THEN (IF x < 0 THEN 2 * HALF_PI ELSE 0)
    ELSE IF x = 0 THEN (IF y > 0 THEN HALF_PI ELSE -HALF_PI)
    ELSE IF x > 0 THEN FDiv(y, x)
    ELSE IF y > 0 THEN FAdd(2 * HALF_PI, FDiv(y, x)) ELSE FAdd(-2 * HALF_PI, FDiv(y, x))

\* The operators below bind their arguments once (x \in {x0}) before using them.

\* Quatf product (Hamilton)
QMul(p0, q0) ==
    CHOOSE r \in {
        Quat(FSub(FSub(FSub(FMul(p[0], q[0]), FMul(p[1], q[1])), FMul(p[2], q[2])), FMul(p[3], q[3])),
             FSub(F3(FMul(p[0], q[1]), FMul(p[1], q[0]), FMul(p[2], q[3])), FMul(p[3], q[2])),
             FAdd(FSub(FMul(p[0], q[2]), FMul(p[1], q[3])), FAdd(FMul(p[2], q[0]), FMul(p[3], q[1]))),
             FAdd(FSub(FAdd(FMul(p[0], q[3]), FMul(p[1], q[2])), FMul(p[2], q[1])), FMul(p[3], q[0])))
        : p \in {p0}, q \in {q0} } : TRUE

QScale(q0, k0) ==
    CHOOSE r \in { Quat(FMul(q[0], k), FMul(q[1], k), FMul(q[2], k), FMul(q[3], k))
                   : q \in {q0}, k \in {k0} } : TRUE
QNormSq(q0) ==
    CHOOSE r \in { F4(FMul(q[0], q[0]), FMul(q[1], q[1]), FMul(q[2], q[2]), FMul(q[3], q[3]))
                   : q \in {q0} } : TRUE
\* Quatf::normalize
QNormalized(q0) ==
    CHOOSE r \in { Quat(FDiv(q[0], n), FDiv(q[1], n), FDiv(q[2], n), FDiv(q[3], n))
                   : q \in {q0}, n \in {sqrtf(QNormSq(q0))} } : TRUE
\* Quatf::inversed
QInversed(q0) ==
    CHOOSE r \in { Quat(FDiv(q[0], n), FDiv(FNeg(q[1]), n), FDiv(FNeg(q[2]), n), FDiv(FNeg(q[3]), n))
                   : q \in {q0}, n \in {QNormSq(q0)} } : TRUE
\* Quatf::dcm_z: the body z axis in the world frame
dcm_z(q0) ==
    CHOOSE r \in {
        Vec3(FMulRat(FAdd(FMul(q[1], q[3]), FMul(q[0], q[2])), 2, 1),
             FMulRat(FSub(FMul(q[2], q[3]), FMul(q[0], q[1])), 2, 1),
             FAdd(FSub(FSub(FMul(q[0], q[0]), FMul(q[1], q[1])), FMul(q[2], q[2])), FMul(q[3], q[3])))
        : q \in {q0} } : TRUE
QImag(q) == Vec3(q[1], q[2], q[3])

Cross(u0, v0) ==
    CHOOSE r \in {
        Vec3(FSub(FMul(u[1], v[2]), FMul(u[2], v[1])),
             FSub(FMul(u[2], v[0]), FMul(u[0], v[2])),
             FSub(FMul(u[0], v[1]), FMul(u[1], v[0])))
        : u \in {u0}, v \in {v0} } : TRUE
Dot(u0, v0) ==
    CHOOSE r \in { F3(FMul(u[0], v[0]), FMul(u[1], v[1]), FMul(u[2], v[2]))
                   : u \in {u0}, v \in {v0} } : TRUE

\* Quatf(src, dst): the shortest rotation taking src to dst
QuatFromTwoVectors(src0, dst0) ==
    CHOOSE r \in {
        LET opposite == Dot(cr, cr) = 0 /\ FLt(dp, 0)
            a == Vec3(fabsf(src[0]), fabsf(src[1]), fabsf(src[2]))
            other == IF FLt(a[0], a[1])
                     THEN (IF FLt(a[0], a[2]) THEN Vec3(Unit, 0, 0) ELSE Vec3(0, 0, Unit))
                     ELSE (IF FLt(a[1], a[2]) THEN Vec3(0, Unit, 0) ELSE Vec3(0, 0, Unit))
            axis == IF opposite THEN Cross(src, other) ELSE cr
            w == IF opposite THEN 0 ELSE FAdd(dp, sqrtf(FMul(Dot(src, src), Dot(dst, dst))))
        IN QNormalized(Quat(w, axis[0], axis[1], axis[2]))
        : src \in {src0}, dst \in {dst0}, cr \in {Cross(src0, dst0)}, dp \in {Dot(src0, dst0)} } : TRUE

\* Eulerf(Quatf): roll, pitch, yaw (3-2-1)
EulerFromQuat(q0) ==
    CHOOSE r \in {
        Vec3(atan2f(FMulRat(FAdd(FMul(q[0], q[1]), FMul(q[2], q[3])), 2, 1),
                    FSub(Unit, FMulRat(FAdd(FMul(q[1], q[1]), FMul(q[2], q[2])), 2, 1))),
             asinf(Constrain(FMulRat(FSub(FMul(q[0], q[2]), FMul(q[3], q[1])), 2, 1), -Unit, Unit)),
             atan2f(FMulRat(FAdd(FMul(q[0], q[3]), FMul(q[1], q[2])), 2, 1),
                    FSub(Unit, FMulRat(FAdd(FMul(q[2], q[2]), FMul(q[3], q[3])), 2, 1))))
        : q \in {q0} } : TRUE

\* Quatf(Eulerf)
QuatFromEuler(e0) ==
    CHOOSE r \in {
        Quat(FAdd(FMul(FMul(cr, cp), cy), FMul(FMul(sr, sp), sy)),
             FSub(FMul(FMul(sr, cp), cy), FMul(FMul(cr, sp), sy)),
             FAdd(FMul(FMul(cr, sp), cy), FMul(FMul(sr, cp), sy)),
             FSub(FMul(FMul(cr, cp), sy), FMul(FMul(sr, sp), cy)))
        : cr \in {cosf(FMulRat(e0[0], 1, 2))}, sr \in {sinf(FMulRat(e0[0], 1, 2))},
          cp \in {cosf(FMulRat(e0[1], 1, 2))}, sp \in {sinf(FMulRat(e0[1], 1, 2))},
          cy \in {cosf(FMulRat(e0[2], 1, 2))}, sy \in {sinf(FMulRat(e0[2], 1, 2))} } : TRUE

-----------------------------------------------------------------------------
(* Filter bank.  Each filter owns its memory; a time constant is held in     *)
(* microseconds like dt.                                                     *)

\* seconds (a float) to microseconds
SecToUsec(T) == TDiv(T * USEC_PER_SEC, Unit)

\* first-order filter memory
Filter1(T) == [T |-> T, out |-> 0, in_prev |-> 0]
\* second-order filter memory: two first-order stages
Filter2(T1, T2) == [a |-> Filter1(T1), b |-> Filter1(T2)]

\* first-order low-pass: out += (u - out) * dt / (T + dt)
LowPassUpdate(f, u, d) ==
    [f EXCEPT !.out = FAdd(f.out, FMulRat(FSub(u, f.out), d, f.T + d)), !.in_prev = u]
\* first-order high-pass, the complement of the low-pass
HighPassUpdate(f, u, d) ==
    [f EXCEPT !.out = FMulRat(FSub(FAdd(f.out, u), f.in_prev), f.T, f.T + d), !.in_prev = u]
\* second-order high-pass: two high-pass stages
HighPass2Update(f, u, d) ==
    LET a1 == HighPassUpdate(f.a, u, d)
    IN [a |-> a1, b |-> HighPassUpdate(f.b, a1.out, d)]
\* band-pass: a high-pass stage then a low-pass stage
BandPassUpdate(f, u, d) ==
    LET a1 == HighPassUpdate(f.a, u, d)
    IN [a |-> a1, b |-> LowPassUpdate(f.b, a1.out, d)]

\* LPFwithDelay after its constructor and set_constant(time_constant)
LPFwithDelay0(T) == [T |-> T, Output_prev |-> 0, delay |-> 0, input_prev |-> 0]
\* LPFwithDelay::update: the low-pass of the input; the raw input is kept in the history
LPFwithDelayUpdate(f, u, d) ==
    [f EXCEPT !.Output_prev = FAdd(f.Output_prev, FMulRat(FSub(u, f.Output_prev), d, f.T + d)),
              !.input_prev = u]
\* LPFwithDelay::get_delay_output: the delayed raw input
get_delay_output(f) == f.input_prev

-----------------------------------------------------------------------------
(* Rate controller: control_attitude_rates and its parts *)

\* pid_attenuations: the throttle PID attenuation factor per axis
pid_attenuations(s, tpa_breakpoint, tpa_rate) ==
    LET raw == FSub(Unit, FDiv(FMul(tpa_rate, FSub(fabsf(s._v_rates_sp.thrust), tpa_breakpoint)),
                               FSub(Unit, tpa_breakpoint)))
        tpa == fmaxf(TPA_RATE_LOWER_LIMIT, fminf(Unit, raw))
    IN Vec3(tpa, tpa, Unit)

\* the gyro sample corrected for thermal errors, rotated into the body frame
\* and corrected for the in-run bias
CorrectedRates(s) ==
    LET g == s._selected_gyro
        raw == IF g \in 0 .. 2
               THEN Emult(VSub(s._sensor_gyro, s._sensor_correction.gyro_offset[g]),
                          s._sensor_correction.gyro_scale[g])
               ELSE s._sensor_gyro
    IN VSub(MatVec(s._board_rotation, raw), s._sensor_bias)

\* "reset integral if disarmed"
RatesIntReset(s) ==
    IF ~s._v_control_mode.flag_armed \/ ~s._vehicle_status.is_rotary_wing
    THEN Zero3 ELSE s._rates_int

positive_saturation(s, i) ==
    \/ i = AXIS_INDEX_ROLL /\ s._saturation_status.roll_pos
    \/ i = AXIS_INDEX_PITCH /\ s._saturation_status.pitch_pos
    \/ i = AXIS_INDEX_YAW /\ s._saturation_status.yaw_pos

negative_saturation(s, i) ==
    \/ i = AXIS_INDEX_ROLL /\ s._saturation_status.roll_neg
    \/ i = AXIS_INDEX_PITCH /\ s._saturation_status.pitch_neg
    \/ i = AXIS_INDEX_YAW /\ s._saturation_status.yaw_neg

AntiWindupErr_Ignored(s, i, err) == err
\* the rate error of axis i as the integral sees it (conditional anti-windup)
AntiWindupErr(s, i, err) ==
    LET e1 == IF positive_saturation(s, i) THEN MathMin(err, 0) ELSE err
    IN IF negative_saturation(s, i) THEN MathMax(e1, 0) ELSE e1

\* the first-order candidate rate_i
RateICandidate(int, gain, err, d) == FAdd(int, FMulDt(FMul(gain, err), d))

\* commit the candidate unless it is out of range or invalid
RateICommit_NoCheck(prev, cand, lim) == cand
RateICommit(prev, cand, lim) ==
    IF PX4_ISFINITE(cand) /\ FGt(cand, FNeg(lim)) /\ FLt(cand, lim) THEN cand ELSE prev

\* the integrator after the update block (before the explicit limit)
RatesIntUpdate_NoThrustGate(s, int0, rates_err, rates_i_scaled, d) ==
    Tab([i \in Axes |->
        RateICommit(int0[i],
                    RateICandidate(int0[i], rates_i_scaled[i],
                                   AntiWindupErr(s, i, rates_err[i]), d),
                    s._rate_int_lim[i])])
RatesIntUpdate(s, int0, rates_err, rates_i_scaled, d) ==
    IF FGt(s._thrust_sp, MIN_TAKEOFF_THRUST)
    THEN Tab([i \in Axes |->
            RateICommit(int0[i],
                        RateICandidate(int0[i], rates_i_scaled[i],
                                       AntiWindupErr(s, i, rates_err[i]), d),
                        s._rate_int_lim[i])])
    ELSE int0

\* "explicitly limit the integrator state"
RatesIntLimit_Missing(s, int) == int
RatesIntLimit(s, int) ==
    Tab([i \in Axes |-> Constrain(int[i], FNeg(s._rate_int_lim[i]), s._rate_int_lim[i])])

\* _lp_filters_d[i].apply: low-pass of the measured rate for the D term
LpFilterApply(f, sample) ==
    IF f.cutoff_freq <= 0 THEN sample
    ELSE FAdd(f.mem, FMulRat(FSub(sample, f.mem), 1, 2))

\* control_attitude_rates(dt)
\* "_ude.u_total[2] = _att_control(2)": the yaw torque of the UDE routes
YawTorque_Kept(u_total, att_control) == u_total
YawTorque(u_total, att_control) == [u_total EXCEPT ![2] = att_control[2]]

ControlAttitudeRates(s0, d) ==
    CHOOSE r \in {
        LET int0 == RatesIntReset(s)
            rates == CorrectedRates(s)
            rates_p_scaled == Emult(s._rate_p, pid_attenuations(s, s.p.tpa_breakpoint_p, s.p.tpa_rate_p))
            rates_i_scaled == Emult(s._rate_i, pid_attenuations(s, s.p.tpa_breakpoint_i, s.p.tpa_rate_i))
            rates_d_scaled == Emult(s._rate_d, pid_attenuations(s, s.p.tpa_breakpoint_d, s.p.tpa_rate_d))
            rates_err == VSub(s._rates_sp, rates)
            rates_filtered == Tab([i \in Axes |-> LpFilterApply(s._lp_filters_d[i], rates[i])])
            dterm == Tab([i \in Axes |->
                        FDivDt(FMul(rates_d_scaled[i], FSub(rates_filtered[i], s._rates_prev_filtered[i])), d)])
            att_control == VAdd(VSub(VAdd(Emult(rates_p_scaled, rates_err), int0), dterm),
                                Emult(s._rate_ff, s._rates_sp))
            int1 == RatesIntUpdate(s, int0, rates_err, rates_i_scaled, d)
        IN [s EXCEPT
              !._att_control = att_control,
              !._rates_prev = rates,
              !._rates_prev_filtered = rates_filtered,
              !._lp_filters_d = Tab([i \in Axes |-> [s._lp_filters_d[i] EXCEPT !.mem = rates_filtered[i]]]),
              !._rates_int = RatesIntLimit(s, int1),
              !._ude = [s._ude EXCEPT !.attitude_rate_now = rates,
                                      !.u_total = YawTorque(s._ude.u_total, att_control)]]
        : s \in {s0} } : TRUE

-----------------------------------------------------------------------------
(* Attitude law: control_attitude                                            *)

\* what a poll finds: NoMsg, or New(m) for a pending message m
NoMsg == << >>
New(m) == <<m>>

omega == 4                        \* omega, rad/s
KP_ATT == 4 * Unit                \* Kp_att of the platform-mode step input
STEP_ANGLE == FMulRat(Unit, 200, 573)     \* 20.0f / 57.3f
SINE_ANGLE == FMulRat(Unit, 300, 573)     \* 30.0f / 57.3f
\* omega * (t - t0) as an angle, t in microseconds
OmegaT(t, t0) == Rnd(TDiv(omega * (t - t0) * Unit, USEC_PER_SEC))
Secs(n) == n * USEC_PER_SEC

\* the sine reference of platform mode at phase angle a: att_ref(1) and its derivatives
SineReference(a) ==
    LET cos_angle == FMul(SINE_ANGLE, cosf(a))
        sin_angle == FMul(SINE_ANGLE, sinf(a))
    IN [ref |-> sin_angle,
        dot |-> FMulRat(cos_angle, omega, 1),
        ddot |-> FNeg(FMulRat(sin_angle, omega * omega, 1)),
        dddot |-> FNeg(FMulRat(cos_angle, omega * omega * omega, 1))]

\* platform mode: the synthetic pitch reference chosen by input_source
PlatformReference(s, d, att_ref0, attitude_now, qd0) ==
    LET t == s.input_source_time
        keep == [att_ref |-> att_ref0, dot1 |-> 0, ddot1 |-> 0, dddot1 |-> 0, qd |-> qd0,
                 input_time |-> s._ude.input_time, input_source_time |-> t,
                 HPF_td |-> s.HPF_td]
    IN IF s.input_source = 0 THEN
           LET r == [att_ref0 EXCEPT ![0] = 0, ![1] = 0]
           IN [keep EXCEPT !.att_ref = r, !.qd = QuatFromEuler(r),
                           !.input_time = 0, !.input_source_time = 0]
       ELSE IF s.input_source = 1 THEN
           LET ref1 == IF t < Secs(5) THEN 0
                       ELSE IF t < Secs(15) THEN STEP_ANGLE
                       ELSE IF t < Secs(25) THEN -STEP_ANGLE ELSE 0
               r == [att_ref0 EXCEPT ![1] = ref1]
               dot1 == Constrain(FMul(KP_ATT, FSub(ref1, attitude_now[1])), -4 * Unit, 4 * Unit)
               h0 == HighPassUpdate(s.HPF_td[0], dot1, d)
               ddot1 == Constrain(h0.out, -50 * Unit, 50 * Unit)
               h1 == HighPassUpdate(s.HPF_td[1], ddot1, d)
               dddot1 == Constrain(h1.out, -100 * Unit, 100 * Unit)
           IN [keep EXCEPT !.att_ref = r, !.dot1 = dot1, !.ddot1 = ddot1, !.dddot1 = dddot1,
                           !.qd = QuatFromEuler(r),
                           !.input_time = s._ude.input_time + d,
                           !.input_source_time = t + d,
                           !.HPF_td = (0 :> h0) @@ (1 :> h1)]
       ELSE IF s.input_source = 2 THEN
           LET w == SineReference(OmegaT(t, 0))
               r == [att_ref0 EXCEPT ![1] = w.ref]
           IN [keep EXCEPT !.att_ref = r, !.dot1 = w.dot, !.ddot1 = w.ddot, !.dddot1 = w.dddot,
                           !.qd = QuatFromEuler(r),
                           !.input_time = s._ude.input_time + d,
                           !.input_source_time = t + d]
       ELSE IF s.input_source = 3 THEN
           LET sine == t >= Secs(20) /\ t < Secs(30)
               w == IF sine THEN SineReference(OmegaT(t, Secs(20)))
                    ELSE [ref |-> IF t < Secs(5) THEN 0
                                  ELSE IF t < Secs(10) THEN SINE_ANGLE
                                  ELSE IF t < Secs(15) THEN -SINE_ANGLE
                                  ELSE IF t < Secs(20) THEN 0
                                  ELSE IF t < Secs(40) THEN 0 ELSE att_ref0[1],
                          dot |-> 0, ddot |-> 0, dddot |-> 0]
               r == [att_ref0 EXCEPT ![1] = w.ref]
           IN [keep EXCEPT !.att_ref = r, !.dot1 = w.dot, !.ddot1 = w.ddot, !.dddot1 = w.dddot,
                           !.qd = QuatFromEuler(r),
                           !.input_time = s._ude.input_time + d,
                           !.input_source_time = t + d]
       ELSE keep

\* the desired attitude blended from the reduced and the full one
\* the reduced desired attitude: the corner case keeps the unreduced qd
ReducedAttitude_NoCornerCase(qd_red0, qd, q) == QMul(qd_red0, q)
ReducedAttitude(qd_red0, qd, q) ==
    \* abs(x) > 1 - 1e-5: on this grid, |x| >= 1
    IF FGt(fabsf(qd_red0[1]), Unit - 1) \/ FGt(fabsf(qd_red0[2]), Unit - 1)
    THEN qd
    ELSE QMul(qd_red0, q)

MixedAttitude(q0, qd00, yaw_w0) ==
    CHOOSE r \in {
        CHOOSE r2 \in {
              QMul(qd_red, Quat(CosWeightedAcos(yaw_w, Constrain(q_mix1[0], -Unit, Unit)), 0, 0,
                                SinWeightedAsin(yaw_w, Constrain(q_mix1[3], -Unit, Unit))))
              : qd_red \in {ReducedAttitude(qd_red0, qd0, q)},
                q_mix1 \in {LET qd_red == ReducedAttitude(qd_red0, qd0, q)
                                m == QMul(QInversed(qd_red), qd0)
                            IN QScale(m, signNoZero(m[0]))} } : TRUE
        : q \in {q0}, qd0 \in {qd00}, yaw_w \in {yaw_w0},
          qd_red0 \in {QuatFromTwoVectors(dcm_z(q0), dcm_z(qd00))} } : TRUE

\* the rate setpoint of the quaternion law, before the limits
AttitudeLawRates(q_in, qd_in, attitude_p, yaw_sp_move_rate, yaw_ff) ==
    CHOOSE r \in {
        LET roll_pitch_gain == FMulRat(FAdd(attitude_p[0], attitude_p[1]), 1, 2)
            yaw_w == Constrain(FDiv(attitude_p[2], roll_pitch_gain), 0, Unit)
            attitude_gain == Vec3(attitude_p[0], attitude_p[1], roll_pitch_gain)
        IN CHOOSE r2 \in {
              LET eq == Tab([i \in Axes |-> FMulRat(FMul(signNoZero(qe[0]), QImag(qe)[i]), 2, 1)])
                  ff == Tab([i \in Axes |-> FMul(z[i], FMul(yaw_sp_move_rate, yaw_ff))])
              IN VAdd(Emult(eq, attitude_gain), ff)
              : qe \in {QMul(QInversed(q), MixedAttitude(q, qd0, yaw_w))},
                z \in {dcm_z(QInversed(q))} } : TRUE
        : q \in {QNormalized(q_in)}, qd0 \in {QNormalized(qd_in)} } : TRUE

\* "limit rates" and the VTOL weather-vane yaw limit
LimitRates(s, att_sp, rates0) ==
    CHOOSE r \in {
        LET auto == (s._v_control_mode.flag_control_velocity_enabled
                        \/ s._v_control_mode.flag_control_auto_enabled)
                    /\ ~s._v_control_mode.flag_control_manual_enabled
            lim == IF auto THEN s._auto_rate_max ELSE s._mc_rate_max
            wv_yaw_rate_max == FMul(s._auto_rate_max[2], s.p.vtol_wv_yaw_rate_scale)
            yaw == Constrain(rates[2], FNeg(lim[2]), lim[2])
        IN Vec3(Constrain(rates[0], FNeg(lim[0]), lim[0]),
                Constrain(rates[1], FNeg(lim[1]), lim[1]),
                IF s._vehicle_status.is_vtol /\ att_sp.disable_mc_yaw_control
                   /\ (s._v_control_mode.flag_control_velocity_enabled
                         \/ s._v_control_mode.flag_control_auto_enabled)
                THEN Constrain(yaw, FNeg(wv_yaw_rate_max), wv_yaw_rate_max)
                ELSE yaw)
        : rates \in {rates0} } : TRUE

\* control_attitude(dt); sp0 is the attitude setpoint its poll finds, or NoMsg
control_attitude(s0, d, sp0) ==
    CHOOSE r1 \in {
      CHOOSE r2 \in {
        CHOOSE r3 \in {
          CHOOSE r4 \in {
            LET platform == s.use_platform = 1
                thrust_sp == IF platform THEN FMulRat(Unit, 4, 10) ELSE att_sp.thrust
                weathervane == /\ s._vehicle_status.is_vtol /\ att_sp.disable_mc_yaw_control
                               /\ (s._v_control_mode.flag_control_velocity_enabled
                                     \/ s._v_control_mode.flag_control_auto_enabled)
            IN [s EXCEPT
                  !._v_att_sp = att_sp,
                  !._thrust_sp = thrust_sp,
                  !._rates_sp = rates_sp,
                  !._rates_int = IF weathervane THEN [s._rates_int EXCEPT ![2] = 0]
                                 ELSE s._rates_int,
                  !.input_source_time = pr.input_source_time,
                  !.HPF_td = pr.HPF_td,
                  !._ude = [s._ude EXCEPT
                              !.input_time = pr.input_time,
                              !.thrust_sp = thrust_sp,
                              !.attitude_ref = pr.att_ref,
                              !.attitude_dot_ref = rates_sp,
                              !.attitude_ddot_ref = Vec3(0, pr.ddot1, 0),
                              !.attitude_dddot_ref = Vec3(0, pr.dddot1, 0),
                              !.attitude_now = attitude_now,
                              !.error_attitude = VSub(pr.att_ref, attitude_now)]]
            : rates_sp \in { IF s.use_platform = 1 /\ s.switch_ude # 0
                             THEN Vec3(0, pr.dot1, 0)
                             ELSE LimitRates(s, att_sp,
                                     AttitudeLawRates(s._v_att.q, pr.qd, s._attitude_p,
                                                      att_sp.yaw_sp_move_rate, s.p.yaw_ff)) }
          } : TRUE
          : pr \in { IF s.use_platform = 1
                     THEN PlatformReference(s, d, att_ref0, attitude_now, att_sp.q_d)
                     ELSE [att_ref |-> att_ref0, dot1 |-> 0, ddot1 |-> 0, dddot1 |-> 0,
                           qd |-> att_sp.q_d, input_time |-> s._ude.input_time,
                           input_source_time |-> s.input_source_time,
                           HPF_td |-> s.HPF_td] }
        } : TRUE
        : att_ref0 \in {EulerFromQuat(att_sp.q_d)},
          attitude_now \in {EulerFromQuat(s._v_att.q)}
      } : TRUE
      : s \in {s0}, att_sp \in {IF sp0 = NoMsg THEN s0._v_att_sp ELSE sp0[1]}
    } : TRUE

-----------------------------------------------------------------------------
(* UDE family: control_attitude_ude, control_attitude_cascade_ude,           *)
(* control_attitude_m_ude                                                    *)

\* roll and pitch, the axes the UDE law drives
UdeAxes == 0 .. 1
\* a 3-vector whose roll and pitch entries are given by a rule and whose yaw entry is kept
Tab2(f, keep) == Vec3(f[0], f[1], keep[2])

\* commit the forward-Euler candidate unless it is out of range or invalid
UdeICommit_NoCheck(prev, cand, lim) == cand
UdeICommit(prev, cand, lim) ==
    IF PX4_ISFINITE(cand) /\ FGt(cand, FNeg(lim)) /\ FLt(cand, lim) THEN cand ELSE prev

\* the integration block shared by the variants: runs once the throttle has been
\* pushed past MIN_TAKEOFF_THRUST
UdeIntegrate(s, cand) ==
    IF FGt(s._ude.thrust_sp, MIN_TAKEOFF_THRUST)
    THEN Tab2([i \in UdeAxes |-> UdeICommit(s.integral_ude[i], cand[i], s.integral_limit_ude[i])],
              s.integral_ude)
    ELSE s.integral_ude

\* "reset integral if disarmed" of control_attitude_ude and control_attitude_cascade_ude
UdeResetDisarmed(s) ==
    IF ~s._v_control_mode.flag_armed \/ ~s._vehicle_status.is_rotary_wing
    THEN [s EXCEPT !.integral_ude = Zero3] ELSE s

\* the reset of control_attitude_m_ude: also below the takeoff thrust, and also the estimates
MUdeReset(s) ==
    IF FLt(s._ude.thrust_sp, MIN_TAKEOFF_THRUST)
       \/ ~s._v_control_mode.flag_armed \/ ~s._vehicle_status.is_rotary_wing
    THEN [s EXCEPT !.integral_ude = Zero3,
                   !._ude = [s._ude EXCEPT !.torque_est = Zero3, !.f1_est = Zero3,
                                           !.f1_dot_est = Zero3, !.f2_est = Zero3,
                                           !.f_est = Zero3]]
    ELSE s

\* control_attitude_cascade_ude(dt)
control_attitude_cascade_ude(s0, d, sp) ==
    CHOOSE r \in {
        LET err_rate == VSub(s._ude.attitude_dot_ref, s._ude.attitude_rate_now)
            feedforward == Tab2([i \in UdeAxes |-> MulMilli(s.I_quadrotor[i], s._ude.attitude_ddot_ref[i])],
                                s._ude.feedforward)
            u_l_kp == Tab2([i \in UdeAxes |-> FMul(s.Kp_ude[i], err_rate[i])], s._ude.u_l_kp)
            u_d0 == Tab2([i \in UdeAxes |->
                            FAdd(MulMilli(s.I_quadrotor[i], FDiv(err_rate[i], s.T_ude[i])),
                                 FDiv(s.integral_ude[i], s.T_ude[i]))], s._ude.u_d)
            cand == Tab2([i \in UdeAxes |->
                            FSub(s.integral_ude[i], FMulDt(FMul(s.Kp_ude[i], err_rate[i]), d))], Zero3)
            u_d == Tab2([i \in UdeAxes |->
                            Constrain(u_d0[i], FNeg(s.integral_limit_ude[i]), s.integral_limit_ude[i])],
                        u_d0)
            u_total == Tab2([i \in UdeAxes |-> FSub(FAdd(feedforward[i], u_l_kp[i]), u_d[i])],
                            s._ude.u_total)
        IN [s EXCEPT
              !.integral_ude = UdeIntegrate(s, cand),
              !._ude = [s._ude EXCEPT !.error_attitude_rate = err_rate,
                                      !.feedforward = feedforward,
                                      !.u_l_kp = u_l_kp,
                                      !.u_d = u_d,
                                      !.u_total = u_total]]
        : s \in {ControlAttitudeRates(control_attitude(UdeResetDisarmed(s0), d, sp), d)} } : TRUE

\* control_attitude_ude(dt)
control_attitude_ude(s0, d, sp) ==
    CHOOSE r \in {
        LET T_us == SecToUsec(s.T_filter_ude)
            hpf == Tab2([i \in UdeAxes |->
                           Constrain(FMulRat(FSub(FAdd(FMul(s.T_filter_ude, s.attitude_dot_sp_last[i]),
                                                       s._ude.attitude_ref[i]),
                                                  s.attitude_sp_last[i]),
                                             USEC_PER_SEC, T_us + d),
                                     -4 * Unit, 4 * Unit)], s._ude.attitude_dot_ref_hpf)
            err_rate == IF s.switch_td = 0 THEN VSub(s._ude.attitude_dot_ref, s._ude.attitude_rate_now)
                        ELSE IF s.switch_td = 1 THEN VSub(hpf, s._ude.attitude_rate_now)
                        ELSE s._ude.error_attitude_rate
            feedforward == Tab2([i \in UdeAxes |-> MulMilli(s.I_quadrotor[i], s._ude.attitude_ddot_ref[i])],
                                s._ude.feedforward)
            u_l_kp == Tab2([i \in UdeAxes |-> FMul(s.Kp_ude[i], s._ude.error_attitude[i])], s._ude.u_l_kp)
            u_l_kd == Tab2([i \in UdeAxes |-> FMul(s.Kd_ude[i], err_rate[i])], s._ude.u_l_kd)
            u_d0 == Tab2([i \in UdeAxes |->
                            FAdd(MulMilli(s.I_quadrotor[i], FDiv(err_rate[i], s.T_ude[i])),
                                 FDiv(s.integral_ude[i], s.T_ude[i]))], s._ude.u_d)
            cand == Tab2([i \in UdeAxes |->
                            FSub(s.integral_ude[i],
                                 FMulDt(F3(feedforward[i], FMul(s.Kp_ude[i], s._ude.error_attitude[i]),
                                           FMul(s.Kd_ude[i], err_rate[i])), d))], Zero3)
            u_d == Tab2([i \in UdeAxes |->
                            Constrain(u_d0[i], FNeg(s.integral_limit_ude[i]), s.integral_limit_ude[i])],
                        u_d0)
            u_total == Tab2([i \in UdeAxes |-> FSub(F3(feedforward[i], u_l_kp[i], u_l_kd[i]), u_d[i])],
                            s._ude.u_total)
        IN [s EXCEPT
              !.integral_ude = UdeIntegrate(s, cand),
              !.attitude_sp_last = Tab2(s._ude.attitude_ref, s.attitude_sp_last),
              !.attitude_dot_sp_last = hpf,
              !._ude = [s._ude EXCEPT !.attitude_dot_ref_hpf = hpf,
                                      !.error_attitude_rate = err_rate,
                                      !.feedforward = feedforward,
                                      !.u_l_kp = u_l_kp,
                                      !.u_l_kd = u_l_kd,
                                      !.u_d = u_d,
                                      !.u_total = u_total]]
        : s \in {ControlAttitudeRates(control_attitude(UdeResetDisarmed(s0), d, sp), d)} } : TRUE

\* control_attitude_m_ude(dt)
control_attitude_m_ude(s0, d, sp) ==
    CHOOSE r \in {
        LET u == s._ude
            err_rate == VSub(u.attitude_dot_ref, u.attitude_rate_now)
            torque_ref == Tab2([i \in UdeAxes |-> MulMilli(s.I_quadrotor[i], u.attitude_ddot_ref[i])],
                               u.torque_ref)
            lpfd == Pair(LPFwithDelayUpdate(s.LPFdelay[0], u.u_total[0], d),
                         LPFwithDelayUpdate(s.LPFdelay[1], u.u_total[1], d))
            torque_est == Tab2([i \in UdeAxes |-> lpfd[i].Output_prev], u.torque_est)
            hpf == Pair(HighPassUpdate(s.HPF[0], u.attitude_rate_now[0], d),
                        HighPassUpdate(s.HPF[1], u.attitude_rate_now[1], d))
            lpf == Pair(LowPassUpdate(s.LPF[0], torque_est[0], d),
                        LowPassUpdate(s.LPF[1], torque_est[1], d))
            hpf2 == Pair(HighPass2Update(s.HPF2[0], u.attitude_rate_now[0], d),
                         HighPass2Update(s.HPF2[1], u.attitude_rate_now[1], d))
            bpf == Pair(BandPassUpdate(s.BPF[0], torque_est[0], d),
                        BandPassUpdate(s.BPF[1], torque_est[1], d))
            f1_est == Tab2([i \in UdeAxes |->
                              FSub(MulMilli(s.I_quadrotor[i], hpf[i].out), lpf[i].out)], u.f1_est)
            f1_dot_est == Tab2([i \in UdeAxes |->
                                  FSub(MulMilli(s.I_quadrotor[i], hpf2[i].b.out), bpf[i].b.out)],
                               u.f1_dot_est)
            f2_est == Tab2([i \in UdeAxes |->
                              FAdd(FDiv(torque_est[i], s.T_torque),
                                   FMulRat(FDiv(s.integral_ude[i], s.T_torque), 1000, MOTOR_ALPHA))],
                           u.f2_est)
            f_est == Tab2([i \in UdeAxes |->
                             F3(MulMilli(MOTOR_ALPHA, f2_est[i]), f1_est[i],
                                MulMilli(MOTOR_ALPHA, f1_dot_est[i]))], u.f_est)
            f2 == Tab2([i \in UdeAxes |->
                          FMulRat(FSub(u.u_total[i], get_delay_output(lpfd[i])), 1000, MOTOR_ALPHA)],
                       u.f2)
            feedforward == Tab2([i \in UdeAxes |->
                                   MulMilli(s.I_quadrotor[i],
                                            FAdd(u.attitude_ddot_ref[i],
                                                 MulMilli(MOTOR_ALPHA, u.attitude_dddot_ref[i])))],
                                u.feedforward)
            u_l_kp == Tab2([i \in UdeAxes |-> FMul(s.Kp_ude[i], u.error_attitude[i])], u.u_l_kp)
            u_l_kd == Tab2([i \in UdeAxes |-> FMul(s.Kd_ude[i], err_rate[i])], u.u_l_kd)
            u_l_km == Tab2([i \in UdeAxes |-> FMul(s.Km_ude[i], FSub(torque_ref[i], torque_est[i]))],
                           u.u_l_km)
            u_d == Tab2([i \in UdeAxes |-> FAdd(FMul(s.Km_ude[i], f1_est[i]), f_est[i])], u.u_d)
            cand == Tab2([i \in UdeAxes |->
                            FAdd(s.integral_ude[i],
                                 FMulDt(FAdd(FSub(FSub(FSub(FSub(torque_est[i], feedforward[i]),
                                                            u_l_kp[i]), u_l_kd[i]), u_l_km[i]),
                                             FAdd(FMul(FAdd(s.Km_ude[i], Unit), f1_est[i]),
                                                  MulMilli(MOTOR_ALPHA, f1_dot_est[i]))), d))], Zero3)
            u_total == Tab2([i \in UdeAxes |->
                               FSub(F4(feedforward[i], u_l_kp[i], u_l_kd[i], u_l_km[i]), u_d[i])],
                            u.u_total)
        IN [s EXCEPT
              !.integral_ude = UdeIntegrate(s, cand),
              !.LPFdelay = lpfd, !.HPF = hpf, !.LPF = lpf, !.HPF2 = hpf2, !.BPF = bpf,
              !._ude = [u EXCEPT !.error_attitude_rate = err_rate,
                                 !.torque_ref = torque_ref,
                                 !.torque_est = torque_est,
                                 !.f1_est = f1_est,
                                 !.f1_dot_est = f1_dot_est,
                                 !.f2_est = f2_est,
                                 !.f_est = f_est,
                                 !.f2 = f2,
                                 !.feedforward = feedforward,
                                 !.u_l_kp = u_l_kp,
                                 !.u_l_kd = u_l_kd,
                                 !.u_l_km = u_l_km,
                                 !.u_d = u_d,
                                 !.u_total = u_total]]
        : s \in {ControlAttitudeRates(control_attitude(MUdeReset(s0), d, sp), d)} } : TRUE

-----------------------------------------------------------------------------
(* Actuator mixer: mixer, thrust_to_throttle, throttle_to_thrust             *)

\* c4 x^4 + c3 x^3 + c2 x^2 + c1 x + c0 for a finite x, the coefficients held in
\* 1/scale, evaluated by Horner's rule and rounded once
Poly4(x, scale, c4, c3, c2, c1, c0) ==
    IF IsNaN(x) THEN NaN
    ELSE Rnd(TDiv((TDiv((TDiv((TDiv((TDiv(c4 * x, Unit) + c3) * x, Unit) + c2) * x, Unit)
                         + c1) * x, Unit) + c0) * Unit, scale))

thrust_to_throttle(thrust) ==
    Poly4(Constrain(thrust, 0, 7 * Unit), 1000 * 1000, -689, 12710, -79480, 305200, 8775)

throttle_to_thrust(throttle) ==
    Poly4(Constrain(throttle, 0, Unit), 100 * 1000, 205200, -1111000, 1565000, 73790, 2543)

\* mixer(roll, pitch, yaw, throttle): the _mixer message it fills and publishes
mixer(roll, pitch, yaw, throttle) ==
    LET thrust == FMulRat(throttle_to_thrust(throttle), 4, 1)
        a(x) == FMulRat(x, 2143, 1000)
        b(x) == FMulRat(x, 1427, 100)
        c(x) == FMulRat(x, 25, 100)
        dd(x) == FMulRat(x, 354, 1000)
        F1 == F4(FNeg(a(roll)), a(pitch), b(yaw), c(thrust))
        F2 == F4(a(roll), FNeg(a(pitch)), b(yaw), c(thrust))
        F3m == F4(a(roll), a(pitch), FNeg(b(yaw)), c(thrust))
        F4m == F4(FNeg(a(roll)), FNeg(a(pitch)), FNeg(b(yaw)), c(thrust))
        t1 == thrust_to_throttle(F1)
        t2 == thrust_to_throttle(F2)
        t3 == thrust_to_throttle(F3m)
        t4 == thrust_to_throttle(F4m)
    IN [input_roll |-> roll, input_pitch |-> pitch, input_yaw |-> yaw, input_thrust |-> throttle,
        F1 |-> F1, F2 |-> F2, F3 |-> F3m, F4 |-> F4m,
        throttle1 |-> t1, throttle2 |-> t2, throttle3 |-> t3, throttle4 |-> t4,
        output_roll |-> F4(FNeg(dd(t1)), dd(t2), dd(t3), FNeg(dd(t4))),
        output_pitch |-> F4(dd(t1), FNeg(dd(t2)), dd(t3), FNeg(dd(t4))),
        output_yaw |-> c(FSub(FSub(FAdd(t1, t2), t3), t4)),
        output_thrust |-> c(F4(t1, t2, t3, t4))]

Mixer0 ==
    [input_roll |-> 0, input_pitch |-> 0, input_yaw |-> 0, input_thrust |-> 0,
     F1 |-> 0, F2 |-> 0, F3 |-> 0, F4 |-> 0,
     throttle1 |-> 0, throttle2 |-> 0, throttle3 |-> 0, throttle4 |-> 0,
     output_roll |-> 0, output_pitch |-> 0, output_yaw |-> 0, output_thrust |-> 0]

-----------------------------------------------------------------------------
(* Construction and parameters *)

\* math::radians of an angle given in whole degrees
Radians(deg) == Rnd(TDiv(deg * Unit * 355, 20340))

\* parameters_updated: store the parameters in a more convenient way
parameters_updated(s0) ==
    CHOOSE r \in {
        LET retune == s._lp_filters_d[0].cutoff_freq # s.p.d_term_cutoff_freq   \* differ by > 0.01 Hz
        IN [s EXCEPT
              !.input_source = s.p.input_source,
              !.use_platform = s.p.use_platform,
              !.switch_ude = s.p.switch_ude,
              !.switch_mixer = s.p.switch_mixer,
              !.switch_td = s.p.switch_td,
              !.T_filter_ude = s.p.ude_T_filter,
              !.T_f = s.p.Tf, !.T_f1 = s.p.Tf1, !.T_f2 = s.p.Tf2,
              !.T_torque = s.p.T_torque,
              !.Kp_ude = Vec3(s.p.Kp_ude, s.p.Kp_ude, s.p.Kp_ude),
              !.Kd_ude = Vec3(s.p.Kd_ude, s.p.Kd_ude, s.p.Kd_ude),
              !.Km_ude = Vec3(s.p.Km_ude, s.p.Km_ude, s.p.Km_ude),
              !.T_ude = Vec3(s.p.T_ude, s.p.T_ude, s.p.T_ude),
              !._attitude_p = s.p.att_p,
              !._rate_p = s.p.rate_p,
              !._rate_i = s.p.rate_i,
              !._rate_int_lim = s.p.rate_integ_lim,
              !._rate_d = s.p.rate_d,
              !._rate_ff = s.p.rate_ff,
              !._lp_filters_d =
                  IF retune
                  THEN Tab([i \in Axes |-> [cutoff_freq |-> s.p.d_term_cutoff_freq,
                                             sample_freq |-> s._loop_update_rate_hz,
                                             mem |-> s._rates_prev[i]]])
                  ELSE s._lp_filters_d,
              !._mc_rate_max = Tab([i \in Axes |-> Radians(s.p.rate_max[i])]),
              !._auto_rate_max = Vec3(Radians(s.p.rate_max[0]), Radians(s.p.rate_max[1]),
                                      Radians(s.p.yaw_auto_max)),
              !._acro_rate_max = Tab([i \in Axes |-> Radians(s.p.acro_max[i])]),
              !._actuators_0_circuit_breaker_enabled = s.p.cbrk_rate_ctrl,
              !._board_rotation = Identity3]
        : s \in {s0} } : TRUE

Ude0 ==
    [ start_time |-> 0, thrust_sp |-> 0, input_time |-> 0,
      torque_est |-> Zero3, f1_est |-> Zero3, f1_dot_est |-> Zero3,
      f2_est |-> Zero3, f_est |-> Zero3, u_total |-> Zero3,
      attitude_ref |-> Zero3, attitude_dot_ref |-> Zero3, attitude_ddot_ref |-> Zero3,
      attitude_dddot_ref |-> Zero3, attitude_now |-> Zero3, error_attitude |-> Zero3,
      attitude_rate_now |-> Zero3, error_attitude_rate |-> Zero3,
      attitude_dot_ref_hpf |-> Zero3, torque_ref |-> Zero3, feedforward |-> Zero3,
      u_l_kp |-> Zero3, u_l_kd |-> Zero3, u_l_km |-> Zero3, u_d |-> Zero3, f2 |-> Zero3 ]

initial_update_rate_hz == 250         \* Hz; frequencies are whole Hz
INITIAL_CUTOFF_HZ == 50

\* the members as the constructor sets them, apart from the parameter copies and the filters
Constructed(p0) ==
    [ p |-> p0,
      input_source |-> 0, use_platform |-> 0, switch_ude |-> 0, switch_mixer |-> 0,
      switch_td |-> 0, T_filter_ude |-> 0, T_f |-> 0, T_f1 |-> 0, T_f2 |-> 0, T_torque |-> 0,
      Kp_ude |-> Zero3, Kd_ude |-> Zero3, Km_ude |-> Zero3, T_ude |-> Zero3,
      _attitude_p |-> Zero3, _rate_p |-> Zero3, _rate_i |-> Zero3, _rate_int_lim |-> Zero3,
      _rate_d |-> Zero3, _rate_ff |-> Zero3,
      _mc_rate_max |-> Zero3, _auto_rate_max |-> Zero3, _acro_rate_max |-> Zero3,
      _actuators_0_circuit_breaker_enabled |-> FALSE,
      _board_rotation |-> Identity3,
      _loop_update_rate_hz |-> initial_update_rate_hz,
      _lp_filters_d |-> Tab([i \in Axes |-> [cutoff_freq |-> INITIAL_CUTOFF_HZ,
                                              sample_freq |-> initial_update_rate_hz,
                                              mem |-> 0]]),
      I_quadrotor |-> Vec3(Ixx, Iyy, Izz),
      integral_limit_ude |-> Vec3(INT_LIMIT, INT_LIMIT, INT_LIMIT),
      attitude_sp_last |-> Zero3, attitude_dot_sp_last |-> Zero3,
      input_source_time |-> 0,
      LPFdelay |-> Pair(LPFwithDelay0(0), LPFwithDelay0(0)),
      LPF |-> Pair(Filter1(0), Filter1(0)),
      HPF |-> Pair(Filter1(0), Filter1(0)),
      HPF2 |-> Pair(Filter2(0, 0), Filter2(0, 0)),
      BPF |-> Pair(Filter2(0, 0), Filter2(0, 0)),
      HPF_td |-> Pair(Filter1(0), Filter1(0)),
      _ude |-> Ude0,
      _mixer |-> Mixer0,
      _actuators |-> Actuators(0, 0, 0, 0, 0),
      _rates_sp_id |-> "nullptr", _actuators_id |-> "nullptr",
      _actuators_0_pub |-> FALSE, _v_rates_sp_pub |-> FALSE,
      _ude_pub |-> FALSE, _mixer_pub |-> FALSE,
      _v_att |-> Attitude0,
      _v_att_sp |-> AttitudeSp0,
      _battery_status |-> Battery0,
      _manual_control_sp |-> Manual0,
      _v_control_mode |-> ControlMode0,
      _vehicle_status |-> VehicleStatus0,
      _saturation_status |-> Saturation0,
      _sensor_correction |-> SensorCorrection0,
      _sensor_bias |-> Zero3,
      _sensor_gyro |-> Zero3,
      _selected_gyro |-> 0,
      _gyro_count |-> 1,
      _v_rates_sp |-> RatesSp0,
      _rates_prev |-> Zero3, _rates_prev_filtered |-> Zero3,
      _rates_sp |-> Zero3, _rates_int |-> Zero3, integral_ude |-> Zero3,
      _thrust_sp |-> 0, _att_control |-> Zero3 ]

\* the filter set-up of the constructor, after parameters_updated has copied the parameters
FiltersInitialized(s) ==
    [s EXCEPT
       !.LPFdelay = Pair(LPFwithDelay0(MOTOR_ALPHA * 1000), LPFwithDelay0(MOTOR_ALPHA * 1000)),
       !.LPF = Pair(Filter1(SecToUsec(s.T_f)), Filter1(SecToUsec(s.T_f))),
       !.HPF = Pair(Filter1(SecToUsec(s.T_f)), Filter1(SecToUsec(s.T_f))),
       !.HPF2 = Pair(Filter2(SecToUsec(s.T_f1), SecToUsec(s.T_f2)),
                     Filter2(SecToUsec(s.T_f1), SecToUsec(s.T_f2))),
       !.BPF = Pair(Filter2(SecToUsec(s.T_f1), SecToUsec(s.T_f2)),
                    Filter2(SecToUsec(s.T_f1), SecToUsec(s.T_f2))),
       !.HPF_td = Pair(Filter1(SecToUsec(s.T_filter_ude)), Filter1(SecToUsec(s.T_filter_ude)))]

\* MulticopterAttitudeControl::MulticopterAttitudeControl
MC0 == FiltersInitialized(parameters_updated(Constructed(Params0)))

-----------------------------------------------------------------------------
(* run(): the polls, one processed gyro sample, and the publications         *)

\* parameter_update_poll: m is the parameter set a pending update carries, or NoMsg
parameter_update_poll(s, m) ==
    IF m = NoMsg THEN s ELSE parameters_updated([s EXCEPT !.p = m[1]])
vehicle_control_mode_poll(s, m) ==
    IF m = NoMsg THEN s ELSE [s EXCEPT !._v_control_mode = m[1]]
vehicle_manual_poll(s, m) ==
    IF m = NoMsg THEN s ELSE [s EXCEPT !._manual_control_sp = m[1]]
vehicle_attitude_poll(s, m) ==
    IF m = NoMsg THEN s ELSE [s EXCEPT !._v_att = m[1]]
battery_status_poll(s, m) ==
    IF m = NoMsg THEN s ELSE [s EXCEPT !._battery_status = m[1]]
vehicle_motor_limits_poll(s, m) ==
    IF m = NoMsg THEN s ELSE [s EXCEPT !._saturation_status = m[1]]
sensor_bias_poll(s, m) ==
    IF m = NoMsg THEN s ELSE [s EXCEPT !._sensor_bias = m[1]]
\* vehicle_status_poll: the first message also fixes the output topics
vehicle_status_poll(s0, m) ==
    CHOOSE r \in {
        IF m = NoMsg THEN s
        ELSE IF s._rates_sp_id = "nullptr"
             THEN [s EXCEPT !._vehicle_status = m[1],
                            !._rates_sp_id = IF m[1].is_vtol THEN "mc_virtual_rates_setpoint"
                                             ELSE "vehicle_rates_setpoint",
                            !._actuators_id = IF m[1].is_vtol THEN "actuator_controls_virtual_mc"
                                              ELSE "actuator_controls_0"]
             ELSE [s EXCEPT !._vehicle_status = m[1]]
        : s \in {s0} } : TRUE
\* sensor_correction_poll: "update the latest gyro selection" runs on every call
sensor_correction_poll_Unguarded(s0, m) ==
    CHOOSE r \in {
        LET s1 == IF m = NoMsg THEN s ELSE [s EXCEPT !._sensor_correction = m[1]]
        IN [s1 EXCEPT !._selected_gyro = s1._sensor_correction.selected_gyro_instance]
        : s \in {s0} } : TRUE
sensor_correction_poll(s0, m) ==
    CHOOSE r \in {
        LET s1 == IF m = NoMsg THEN s ELSE [s EXCEPT !._sensor_correction = m[1]]
        IN IF s1._sensor_correction.selected_gyro_instance < s1._gyro_count
           THEN [s1 EXCEPT !._selected_gyro = s1._sensor_correction.selected_gyro_instance]
           ELSE s1
        : s \in {s0} } : TRUE
\* vehicle_rates_setpoint_poll
vehicle_rates_setpoint_poll(s, m) ==
    IF m = NoMsg THEN s ELSE [s EXCEPT !._v_rates_sp = m[1]]

\* "check for updates in other topics", in the order run() calls the polls
PollTopics(s, in) ==
    sensor_bias_poll(
      sensor_correction_poll(
        vehicle_attitude_poll(
          battery_status_poll(
            vehicle_motor_limits_poll(
              vehicle_status_poll(
                vehicle_manual_poll(
                  vehicle_control_mode_poll(
                    parameter_update_poll(s, in.params),
                    in.control_mode),
                  in.manual),
                in.status),
              in.motor_limits),
            in.battery),
          in.attitude),
        in.sensor_correction),
      in.sensor_bias)

\* rattitude: above the stick threshold on pitch or roll the attitude controller is skipped
RattitudeOverride(s0) ==
    CHOOSE r \in {
        IF s._v_control_mode.flag_control_rattitude_enabled
           /\ (FGt(fabsf(s._manual_control_sp.y), s.p.rattitude_thres)
                 \/ FGt(fabsf(s._manual_control_sp.x), s.p.rattitude_thres))
        THEN [s EXCEPT !._v_control_mode.flag_control_attitude_enabled = FALSE]
        ELSE s
        : s \in {s0} } : TRUE

\* math::expo and math::superexpo
expo(value, e) ==
    LET x == Constrain(value, -Unit, Unit)
        ec == Constrain(e, 0, Unit)
    IN FAdd(FMul(FSub(Unit, ec), x), FMul(ec, FMul(FMul(x, x), x)))
superexpo(value, e, g) ==
    LET x == Constrain(value, -Unit, Unit)
        gc == Constrain(g, 0, FMulRat(Unit, 99, 100))
    IN FDiv(FMul(expo(x, e), FSub(Unit, gc)), FSub(Unit, FMul(fabsf(x), gc)))

\* a channel value as it is stored in _actuators: non-finite becomes zero
FiniteOrZero(x) == IF PX4_ISFINITE(x) THEN x ELSE 0

\* "scale effort by battery status"
BatteryScaled(s, x) ==
    IF s.p.bat_scale_en /\ FGt(s._battery_status.scale, 0)
    THEN FMul(x, s._battery_status.scale) ELSE x

Msg(topic, data) == [topic |-> topic, data |-> data]

\* a step of run() works on the object and the messages published so far
Ctx(s, out) == [s |-> s, out |-> out]

\* orb_publish on an advertised topic, orb_advertise once the topic id is known
PublishActuators_NoBreaker(c0) ==
    CHOOSE r \in {
        IF c.s._actuators_0_pub
        THEN Ctx(c.s, Append(c.out, Msg(c.s._actuators_id, c.s._actuators)))
        ELSE IF c.s._actuators_id # "nullptr"
             THEN Ctx([c.s EXCEPT !._actuators_0_pub = TRUE],
                      Append(c.out, Msg(c.s._actuators_id, c.s._actuators)))
        ELSE c
        : c \in {c0} } : TRUE
PublishActuators(c0) ==
    CHOOSE r \in {
        IF c.s._actuators_0_circuit_breaker_enabled THEN c
        ELSE IF c.s._actuators_0_pub
             THEN Ctx(c.s, Append(c.out, Msg(c.s._actuators_id, c.s._actuators)))
        ELSE IF c.s._actuators_id # "nullptr"
             THEN Ctx([c.s EXCEPT !._actuators_0_pub = TRUE],
                      Append(c.out, Msg(c.s._actuators_id, c.s._actuators)))
        ELSE c
        : c \in {c0} } : TRUE

RatesSetpointMsg(s) ==
    [roll |-> s._rates_sp[0], pitch |-> s._rates_sp[1], yaw |-> s._rates_sp[2],
     thrust |-> s._thrust_sp]

\* "publish attitude rates setpoint"
PublishRatesSetpoint(c0) ==
    CHOOSE r \in {
        LET s1 == [c.s EXCEPT !._v_rates_sp = RatesSetpointMsg(c.s)]
        IN IF s1._v_rates_sp_pub
           THEN Ctx(s1, Append(c.out, Msg(s1._rates_sp_id, s1._v_rates_sp)))
           ELSE IF s1._rates_sp_id # "nullptr"
                THEN Ctx([s1 EXCEPT !._v_rates_sp_pub = TRUE],
                         Append(c.out, Msg(s1._rates_sp_id, s1._v_rates_sp)))
           ELSE Ctx(s1, c.out)
        : c \in {c0} } : TRUE

\* the channels as stored, then scaled by the battery status
StoreActuators(s0, c0, c1, c2, c3) ==
    CHOOSE r \in {
        [s EXCEPT !._actuators =
            Actuators(BatteryScaled(s, FiniteOrZero(c0)), BatteryScaled(s, FiniteOrZero(c1)),
                      BatteryScaled(s, FiniteOrZero(c2)), BatteryScaled(s, FiniteOrZero(c3)),
                      s._v_att_sp.landing_gear)]
        : s \in {s0} } : TRUE

\* the UDE variant selected by switch_ude; any other value runs none of them
UdeVariant_FlagGated(s0, d, sp) ==
    CHOOSE r \in {
        IF ~s._v_control_mode.flag_control_rates_enabled THEN s
        ELSE IF s.switch_ude = 1 THEN control_attitude_ude(s, d, sp)
        ELSE IF s.switch_ude = 2 THEN control_attitude_cascade_ude(s, d, sp)
        ELSE IF s.switch_ude = 3 THEN control_attitude_m_ude(s, d, sp)
        ELSE s
        : s \in {s0} } : TRUE
UdeVariant(s0, d, sp) ==
    CHOOSE r \in {
        IF s.switch_ude = 1 THEN control_attitude_ude(s, d, sp)
        ELSE IF s.switch_ude = 2 THEN control_attitude_cascade_ude(s, d, sp)
        ELSE IF s.switch_ude = 3 THEN control_attitude_m_ude(s, d, sp)
        ELSE s
        : s \in {s0} } : TRUE

\* "start ude control": switch_ude != 0
UdeRoute(c0, d, in) ==
    CHOOSE r \in {
        IF s2.switch_mixer = 0
        THEN PublishActuators(
               Ctx(StoreActuators(s2, s2._ude.u_total[0], s2._ude.u_total[1],
                                  s2._ude.u_total[2], s2._ude.thrust_sp), c.out))
        ELSE CHOOSE r2 \in {
               PublishActuators(
                 Ctx(StoreActuators(
                       [s2 EXCEPT !._mixer = IF s2.use_platform = 1
                                             THEN [m EXCEPT !.output_roll = 0, !.output_yaw = 0]
                                             ELSE m,
                                  !._mixer_pub = TRUE],
                       IF s2.use_platform = 1 THEN 0 ELSE m.output_roll,
                       m.output_pitch,
                       IF s2.use_platform = 1 THEN 0 ELSE m.output_yaw,
                       m.output_thrust),
                     Append(c.out, Msg("mixer", m))))
               : m \in {mixer(s2._ude.u_total[0], s2._ude.u_total[1], s2._ude.u_total[2],
                              s2._ude.thrust_sp)} } : TRUE
        : c \in {c0},
          s2 \in { CHOOSE r1 \in {
                      IF s1.use_platform = 1
                      THEN [s1 EXCEPT !._ude.u_total = [s1._ude.u_total EXCEPT ![0] = 0, ![2] = 0]]
                      ELSE s1
                      : s1 \in {UdeVariant(c0.s, d, in.attitude_sp)} } : TRUE } } : TRUE

\* "default pid control": the setpoint stage
ClassicalSetpoint(c0, d, in) ==
    CHOOSE r \in {
        IF c.s._v_control_mode.flag_control_attitude_enabled
        THEN PublishRatesSetpoint(Ctx(control_attitude(c.s, d, in.attitude_sp), c.out))
        ELSE IF c.s._v_control_mode.flag_control_manual_enabled
        THEN LET man == c.s._manual_control_sp
                 man_rate_sp == Vec3(superexpo(man.y, c.s.p.acro_expo_rp, c.s.p.acro_superexpo_rp),
                                     superexpo(FNeg(man.x), c.s.p.acro_expo_rp, c.s.p.acro_superexpo_rp),
                                     superexpo(man.r, c.s.p.acro_expo_y, c.s.p.acro_superexpo_y))
             IN PublishRatesSetpoint(
                  Ctx([c.s EXCEPT !._rates_sp = Emult(man_rate_sp, c.s._acro_rate_max),
                                  !._thrust_sp = man.z], c.out))
        ELSE LET s1 == vehicle_rates_setpoint_poll(c.s, in.rates_sp)
             IN Ctx([s1 EXCEPT !._rates_sp = Vec3(s1._v_rates_sp.roll, s1._v_rates_sp.pitch,
                                                  s1._v_rates_sp.yaw),
                               !._thrust_sp = s1._v_rates_sp.thrust], c.out)
        : c \in {c0} } : TRUE

RateCtrlStatus(s) ==
    [rollspeed |-> s._rates_prev[0], pitchspeed |-> s._rates_prev[1], yawspeed |-> s._rates_prev[2],
     rollspeed_integ |-> s._rates_int[0], pitchspeed_integ |-> s._rates_int[1],
     yawspeed_integ |-> s._rates_int[2]]

\* "default pid control": the rate stage
ClassicalRates(c0, d) ==
    CHOOSE r \in {
        IF c.s._v_control_mode.flag_control_rates_enabled
        THEN CHOOSE r3 \in {
               Ctx(c3.s, Append(c3.out, Msg("rate_ctrl_status", RateCtrlStatus(c3.s))))
               : c3 \in { CHOOSE r2 \in {
                            PublishActuators(
                              Ctx(StoreActuators(s2, s2._att_control[0], s2._att_control[1],
                                                 s2._att_control[2], s2._thrust_sp), c.out))
                            : s2 \in { CHOOSE r1 \in {
                                         IF s1.use_platform = 1
                                         THEN [s1 EXCEPT !._att_control =
                                                 [s1._att_control EXCEPT ![0] = 0, ![2] = 0]]
                                         ELSE s1
                                         : s1 \in {ControlAttitudeRates(c.s, d)} } : TRUE }
                          } : TRUE } } : TRUE
        ELSE c
        : c \in {c0} } : TRUE

\* "publish ude controller status"
PublishUde(c0, d) ==
    CHOOSE r \in {
        LET s1 == [c.s EXCEPT !._ude.start_time = @ + d, !._ude_pub = TRUE]
        IN Ctx(s1, Append(c.out, Msg("ude", s1._ude)))
        : c \in {c0} } : TRUE

\* flight termination (not for VTOL): zero everything and publish zero actuators
Termination_KeepsUdeIntegral(c0) ==
    CHOOSE r \in {
        IF c.s._v_control_mode.flag_control_termination_enabled /\ ~c.s._vehicle_status.is_vtol
        THEN PublishActuators(
               Ctx([c.s EXCEPT !._rates_sp = Zero3, !._rates_int = Zero3,
                               !._thrust_sp = 0, !._att_control = Zero3,
                               !._actuators = [c.s._actuators EXCEPT ![0] = 0, ![1] = 0, ![2] = 0, ![3] = 0]],
                   c.out))
        ELSE c
        : c \in {c0} } : TRUE
Termination(c0) ==
    CHOOSE r \in {
        IF c.s._v_control_mode.flag_control_termination_enabled /\ ~c.s._vehicle_status.is_vtol
        THEN PublishActuators(
               Ctx([c.s EXCEPT !._rates_sp = Zero3, !._rates_int = Zero3, !.integral_ude = Zero3,
                               !._thrust_sp = 0, !._att_control = Zero3,
                               !._actuators = [c.s._actuators EXCEPT ![0] = 0, ![1] = 0, ![2] = 0, ![3] = 0]],
                   c.out))
        ELSE c
        : c \in {c0} } : TRUE

LOOP_RATE_WINDOW == 3300000       \* microseconds after task start

\* "calculate loop update rate": acc and cnt are dt_accumulator and loop_counter
LoopRateUpdate_WhileArmed(s0, d, t, t0, acc, cnt) ==
    CHOOSE r \in {
        IF acc + d > USEC_PER_SEC
        THEN LET loop_update_rate == ((cnt + 1) * USEC_PER_SEC) \div (acc + d)
                 hz == (s._loop_update_rate_hz + loop_update_rate) \div 2
             IN [s |-> [s EXCEPT !._loop_update_rate_hz = hz,
                                 !._lp_filters_d = Tab([i \in Axes |->
                                     [s._lp_filters_d[i] EXCEPT !.sample_freq = hz,
                                                                !.cutoff_freq = s.p.d_term_cutoff_freq]])],
                 acc |-> 0, cnt |-> 0]
        ELSE [s |-> s, acc |-> acc + d, cnt |-> cnt + 1]
        : s \in {s0} } : TRUE
LoopRateUpdate(s0, d, t, t0, acc, cnt) ==
    CHOOSE r \in {
        IF ~s._v_control_mode.flag_armed \/ (t - t0) < LOOP_RATE_WINDOW
        THEN IF acc + d > USEC_PER_SEC
             THEN LET loop_update_rate == ((cnt + 1) * USEC_PER_SEC) \div (acc + d)
                      hz == (s._loop_update_rate_hz + loop_update_rate) \div 2
                  IN [s |-> [s EXCEPT !._loop_update_rate_hz = hz,
                                      !._lp_filters_d = Tab([i \in Axes |->
                                          [s._lp_filters_d[i] EXCEPT !.sample_freq = hz,
                                                                     !.cutoff_freq = s.p.d_term_cutoff_freq]])],
                      acc |-> 0, cnt |-> 0]
             ELSE [s |-> s, acc |-> acc + d, cnt |-> cnt + 1]
        ELSE [s |-> s, acc |-> acc, cnt |-> cnt]
        : s \in {s0} } : TRUE

\* the dt of an iteration: the clock delta, guarded against < 0.2 ms and > 20 ms
ClampDt_NoCeiling(delta) == IF delta < DT_MIN THEN DT_MIN ELSE delta
ClampDt(delta) == IF delta < DT_MIN THEN DT_MIN ELSE IF delta > DT_MAX THEN DT_MAX ELSE delta

\* one processed gyro sample: everything inside "if (poll_fds.revents & POLLIN)"
\* up to the termination block
ProcessSample_TerminatesFirst(s0, d, in) ==
    CHOOSE r \in {
        PublishUde(IF c1.s.switch_ude # 0 THEN UdeRoute(c1, d, in)
                   ELSE ClassicalRates(ClassicalSetpoint(c1, d, in), d), d)
        : c1 \in { Termination(
                     Ctx(RattitudeOverride(PollTopics([s0 EXCEPT !._sensor_gyro = in.gyro], in)),
                         << >>)) } } : TRUE
ProcessSample(s0, d, in) ==
    CHOOSE r \in {
        Termination(PublishUde(IF c1.s.switch_ude # 0 THEN UdeRoute(c1, d, in)
                               ELSE ClassicalRates(ClassicalSetpoint(c1, d, in), d), d))
        : c1 \in { Ctx(RattitudeOverride(PollTopics([s0 EXCEPT !._sensor_gyro = in.gyro], in)),
                       << >>) } } : TRUE

-----------------------------------------------------------------------------
(* Inputs: the bounded sets the environment draws from *)

DtValues == {DT_MIN, DT_MAX}

GyroSamples == { Vec3(-Unit, Unit, -Unit), Vec3(Unit, -Unit, Unit), Vec3(0, NaN, 0) }

ControlModes ==
    { [ControlMode0 EXCEPT !.flag_control_attitude_enabled = TRUE,
                           !.flag_control_rates_enabled = TRUE,
                           !.flag_control_manual_enabled = TRUE],
      [ControlMode0 EXCEPT !.flag_armed = TRUE,
                           !.flag_control_attitude_enabled = TRUE,
                           !.flag_control_rates_enabled = TRUE,
                           !.flag_control_manual_enabled = TRUE] }

VehicleStatuses == { VehicleStatus0, [is_rotary_wing |-> FALSE, is_vtol |-> TRUE] }

Saturations ==
    { Saturation0,
      [Saturation0 EXCEPT !.roll_pos = TRUE, !.pitch_neg = TRUE],
      [Saturation0 EXCEPT !.yaw_pos = TRUE, !.yaw_neg = TRUE] }

RatesSetpoints ==
    { [roll |-> 0, pitch |-> 0, yaw |-> 0, thrust |-> Unit \div 2],
      [roll |-> 0, pitch |-> 0, yaw |-> 0, thrust |-> Unit \div 20] }

RateParamSets ==
    { Params0,
      [Params0 EXCEPT !.rate_integ_lim = Vec3(Unit \div 4, Unit \div 4, Unit \div 2)] }

\* the gyro instances run() subscribes to: one per instance counted at task start
GyroSubscriptions(n) == { <<"_sensor_gyro_sub", i>> : i \in 0 .. (n - 1) }

\* "do subscriptions": every handle run() opens before the loop
Subscribed ==
    { <<"_v_att_sub", 0>>, <<"_v_att_sp_sub", 0>>, <<"_v_rates_sp_sub", 0>>,
      <<"_v_control_mode_sub", 0>>, <<"_params_sub", 0>>, <<"_manual_control_sp_sub", 0>>,
      <<"_vehicle_status_sub", 0>>, <<"_motor_limits_sub", 0>>, <<"_battery_status_sub", 0>>,
      <<"_outputs_sub", 0>>, <<"_sensor_correction_sub", 0>>, <<"_sensor_bias_sub", 0>> }
    \cup GyroSubscriptions(MC0._gyro_count)

\* the handles run() passes to orb_unsubscribe after the loop
Unsubscribed(s) ==
    { <<"_v_att_sub", 0>>, <<"_v_att_sp_sub", 0>>, <<"_v_rates_sp_sub", 0>>,
      <<"_v_control_mode_sub", 0>>, <<"_params_sub", 0>>, <<"_manual_control_sp_sub", 0>>,
      <<"_vehicle_status_sub", 0>>, <<"_motor_limits_sub", 0>>, <<"_battery_status_sub", 0>>,
      <<"_sensor_correction_sub", 0>>, <<"_sensor_bias_sub", 0>> }
    \cup GyroSubscriptions(s._gyro_count)

\* "while (!should_exit())"
LoopContinues_Always(stop) == TRUE
LoopContinues(stop) == ~stop

-----------------------------------------------------------------------------
(* The rate controller on its own: run()'s rate-setpoint route, one call per *)
(* step, with the cached inputs changing between calls                      *)

Init ==
    /\ mc = MC0
    /\ now = 0
    /\ last_run = 0
    /\ task_start = 0
    /\ dt_accumulator = 0
    /\ loop_counter = 0
    /\ dt = 0
    /\ pret = 0
    /\ pubs = << >>
    /\ op = "none"
    /\ should_exit = FALSE
    /\ subs = Subscribed
    /\ pc = "head"
    /\ arrived = NoMsg

taskvars == <<should_exit, subs, pc, arrived>>
loopvars == <<now, last_run, task_start, dt_accumulator, loop_counter, pret, pubs, taskvars>>
loopvars_curve == <<now, last_run, task_start, dt_accumulator, loop_counter, pret, taskvars>>

\* orb_copy of the gyro sample, then control_attitude_rates(dt)
RatesCall ==
    \E g \in GyroSamples, d \in DtValues :
        LET s == [mc EXCEPT !._sensor_gyro = g]
        IN /\ mc' = ControlAttitudeRates(s, d)
           /\ dt' = d
           /\ op' = "rates"
           /\ UNCHANGED loopvars

\* vehicle_rates_setpoint_poll and the copy into _rates_sp, _thrust_sp
RatesSetpointInput ==
    \E m \in RatesSetpoints :
        /\ mc' = [mc EXCEPT !._v_rates_sp = m,
                            !._rates_sp = Vec3(m.roll, m.pitch, m.yaw),
                            !._thrust_sp = m.thrust]
        /\ op' = "input"
        /\ UNCHANGED <<dt, loopvars>>

\* vehicle_control_mode_poll
ControlModeInput ==
    \E m \in ControlModes :
        /\ mc' = [mc EXCEPT !._v_control_mode = m]
        /\ op' = "input"
        /\ UNCHANGED <<dt, loopvars>>

\* vehicle_status_poll
VehicleStatusInput ==
    \E m \in VehicleStatuses :
        /\ mc' = [mc EXCEPT !._vehicle_status = m]
        /\ op' = "input"
        /\ UNCHANGED <<dt, loopvars>>

\* vehicle_motor_limits_poll
MotorLimitsInput ==
    \E m \in Saturations :
        /\ mc' = [mc EXCEPT !._saturation_status = m]
        /\ op' = "input"
        /\ UNCHANGED <<dt, loopvars>>

\* parameter_update_poll
RateParamInput ==
    \E q \in RateParamSets :
        /\ mc' = parameters_updated([mc EXCEPT !.p = q])
        /\ op' = "input"
        /\ UNCHANGED <<dt, loopvars>>

NextRates ==
    \/ RatesCall
    \/ RatesSetpointInput
    \/ ControlModeInput
    \/ VehicleStatusInput
    \/ MotorLimitsInput
    \/ RateParamInput

SpecRates == Init /\ [][NextRates]_vars

-----------------------------------------------------------------------------
(* The UDE variants on their own: run()'s UDE route up to the variant call,  *)
(* one call per step, with the cached inputs changing between calls          *)

\* gains that move the UDE integral by half of INT_LIMIT in one 20 ms step
UdeParams(k) ==
    [Params0 EXCEPT !.switch_ude = k,
                    !.Kp_ude = 25 * Unit,
                    !.Kd_ude = 25 * Unit]
UdeParamSets == { UdeParams(1), UdeParams(2), UdeParams(3) }

AttitudeSetpoints ==
    { [AttitudeSp0 EXCEPT !.thrust = Unit \div 2],
      [AttitudeSp0 EXCEPT !.thrust = Unit \div 20] }

\* the gyro samples of this harness arrive 50 ms apart, until MaxUdeTime
MaxUdeCalls == 2
UdeGap == 50 * 1000
MaxUdeTime == MaxUdeCalls * UdeGap

\* run() with switch_ude = k: the clock delta clamped to dt, orb_copy of the gyro
\* sample and of the attitude setpoint, then the variant
UdeCall(k) ==
    /\ mc.switch_ude = k
    /\ now + UdeGap <= MaxUdeTime
    /\ now' = now + UdeGap
    /\ last_run' = now'
    /\ dt' = ClampDt(now' - last_run)
    /\ \E g \in GyroSamples, sp \in {New(m) : m \in AttitudeSetpoints} :
          mc' = UdeVariant([mc EXCEPT !._sensor_gyro = g], dt', sp)
    /\ op' = "ude"
    /\ UNCHANGED <<task_start, dt_accumulator, loop_counter, pret, pubs, taskvars>>

\* parameter_update_poll
UdeParamInput ==
    \E q \in UdeParamSets :
        /\ mc' = parameter_update_poll(mc, New(q))
        /\ op' = "input"
        /\ UNCHANGED <<dt, loopvars>>

NextUde ==
    \/ UdeCall(1)
    \/ UdeCall(2)
    \/ UdeCall(3)
    \/ UdeParamInput
    \/ ControlModeInput
    \/ VehicleStatusInput

SpecUde == Init /\ [][NextUde]_vars

-----------------------------------------------------------------------------
(* run(): the loop.  A step is one pass of "while (!should_exit())": a wait  *)
(* on the selected gyro that times out, fails, returns without data, or      *)
(* delivers a sample that is processed                                       *)

\* what the polls of one iteration find: a gyro sample and no other message
Quiet(g) ==
    [gyro |-> g, params |-> NoMsg, control_mode |-> NoMsg, manual |-> NoMsg,
     status |-> NoMsg, motor_limits |-> NoMsg, battery |-> NoMsg, attitude |-> NoMsg,
     sensor_correction |-> NoMsg, sensor_bias |-> NoMsg, attitude_sp |-> NoMsg,
     rates_sp |-> NoMsg]

\* strategy k (switch_ude) with or without the mixer, battery scaling enabled
RunParams(k, m) ==
    [Params0 EXCEPT !.switch_ude = k, !.switch_mixer = m, !.bat_scale_en = TRUE,
                    !.Kp_ude = 25 * Unit, !.Kd_ude = 25 * Unit]
\* <<switch_ude, switch_mixer>>: classical, the three UDE variants, one of them mixed
Strategies == { <<0, 0>>, <<1, 0>>, <<2, 0>>, <<3, 1>> }

Flying ==
    [ControlMode0 EXCEPT !.flag_armed = TRUE,
                         !.flag_control_attitude_enabled = TRUE,
                         !.flag_control_rates_enabled = TRUE]
Terminating == [Flying EXCEPT !.flag_control_termination_enabled = TRUE]
HalfThrust == [AttitudeSp0 EXCEPT !.thrust = Unit \div 2]

GyroFinite == Vec3(Unit, -Unit, Unit)
GyroNaN == Vec3(0, NaN, 0)

RunInputs ==
    { Quiet(GyroFinite), Quiet(GyroNaN) }
    \cup { [Quiet(GyroFinite) EXCEPT !.params = New(RunParams(km[1], km[2])),
                                     !.control_mode = New(Flying),
                                     !.status = New(VehicleStatus0),
                                     !.attitude_sp = New(HalfThrust)] : km \in Strategies }
    \cup { [Quiet(GyroFinite) EXCEPT !.control_mode = New(Terminating)],
           [Quiet(GyroFinite) EXCEPT !.status = New([is_rotary_wing |-> TRUE, is_vtol |-> TRUE])],
           [Quiet(GyroFinite) EXCEPT !.battery = New([scale |-> PInf])],
           [Quiet(GyroFinite) EXCEPT !.battery = New([scale |-> Unit + Unit \div 4])] }

\* the samples of SpecRun arrive 50 ms apart
RunGaps == { 50 * 1000 }
\* the samples of SpecClock arrive 0.1 ms, 5 ms or 50 ms after the previous wake-up
ClockGaps == { 100, 5 * 1000, 50 * 1000 }
ClockInputs == { Quiet(GyroFinite) }

\* the loop head finds no stop request and enters px4_poll on the selected gyro
EnterIterationUntil(tmax) ==
    /\ pc = "head"
    /\ LoopContinues(should_exit)
    /\ now + POLL_TIMEOUT <= tmax
    /\ pc' = "wait"
    /\ pubs' = << >>
    /\ op' = "enter"
    /\ UNCHANGED <<mc, now, last_run, task_start, dt_accumulator, loop_counter, dt, pret,
                   should_exit, subs, arrived>>

EnterIteration == EnterIterationUntil(MaxNow)

\* px4_poll returns 0 after 100 ms: "continue"
PollTimeout_MovesLastRun ==
    /\ pc = "wait"
    /\ now + POLL_TIMEOUT <= MaxNow
    /\ now' = now + POLL_TIMEOUT
    /\ last_run' = now'
    /\ pret' = 0
    /\ pubs' = << >>
    /\ op' = "timeout"
    /\ pc' = "head"
    /\ UNCHANGED <<mc, task_start, dt_accumulator, loop_counter, dt, should_exit, subs, arrived>>
PollTimeout ==
    /\ pc = "wait"
    /\ now + POLL_TIMEOUT <= MaxNow
    /\ now' = now + POLL_TIMEOUT
    /\ pret' = 0
    /\ pubs' = << >>
    /\ op' = "timeout"
    /\ pc' = "head"
    /\ UNCHANGED <<mc, last_run, task_start, dt_accumulator, loop_counter, dt, should_exit, subs, arrived>>

\* px4_poll fails: usleep(100000), "continue"
PollError ==
    /\ pc = "wait"
    /\ now + POLL_ERROR_SLEEP <= MaxNow
    /\ now' = now + POLL_ERROR_SLEEP
    /\ pret' = -1
    /\ pubs' = << >>
    /\ op' = "error"
    /\ pc' = "head"
    /\ UNCHANGED <<mc, last_run, task_start, dt_accumulator, loop_counter, dt, should_exit, subs, arrived>>

\* px4_poll returns > 0 but revents has no POLLIN: the body is skipped
PollNoData(gaps) ==
    \E gap \in gaps :
        /\ pc = "wait"
        /\ now + gap <= MaxNow
        /\ now' = now + gap
        /\ pret' = 1
        /\ pubs' = << >>
        /\ op' = "nodata"
        /\ pc' = "head"
        /\ UNCHANGED <<mc, last_run, task_start, dt_accumulator, loop_counter, dt, should_exit, subs, arrived>>

\* px4_poll returns with POLLIN: the sample is processed
GyroSampleUntil(gaps, inputs, tmax) ==
    /\ pc = "wait"
    /\ \E gap \in gaps, in \in inputs :
          /\ now + gap <= tmax
          /\ now' = now + gap
          /\ dt' = ClampDt(now' - last_run)
          /\ last_run' = now'
          /\ \E c \in {ProcessSample(mc, dt', in)} :
                /\ pubs' = c.out
                /\ \E l \in {LoopRateUpdate(c.s, dt', now', task_start,
                                            dt_accumulator, loop_counter)} :
                      /\ mc' = l.s
                      /\ dt_accumulator' = l.acc
                      /\ loop_counter' = l.cnt
          /\ arrived' = in
    /\ pret' = 1
    /\ op' = "sample"
    /\ pc' = "head"
    /\ UNCHANGED <<task_start, should_exit, subs>>

GyroSample(gaps, inputs) ==
    /\ loop_counter < MaxSamples
    /\ GyroSampleUntil(gaps, inputs, MaxNow)

NextRun ==
    \/ EnterIteration
    \/ PollTimeout
    \/ PollError
    \/ PollNoData(RunGaps)
    \/ GyroSample(RunGaps, RunInputs)

SpecRun == Init /\ [][NextRun]_vars

NextClock ==
    \/ EnterIteration
    \/ PollTimeout
    \/ PollError
    \/ PollNoData(RunGaps)
    \/ GyroSample(ClockGaps, ClockInputs)

SpecClock == Init /\ [][NextClock]_vars

\* the stop request: another thread sets the flag that should_exit() reads at the loop head
RequestStop ==
    /\ ~should_exit
    /\ pc # "returned"
    /\ should_exit' = TRUE
    /\ UNCHANGED <<mc, now, last_run, task_start, dt_accumulator, loop_counter, dt, pret, pubs, op, subs, pc, arrived>>

\* the loop condition fails: the code after the loop releases the subscriptions and run() returns
ReturnFromRun ==
    /\ pc = "head"
    /\ ~LoopContinues(should_exit)
    /\ subs' = subs \ Unsubscribed(mc)
    /\ pc' = "returned"
    /\ pubs' = << >>
    /\ op' = "return"
    /\ UNCHANGED <<mc, now, last_run, task_start, dt_accumulator, loop_counter, dt, pret, should_exit, arrived>>

\* the steps the task's own thread takes
TaskStep ==
    \/ EnterIteration
    \/ PollTimeout
    \/ PollError
    \/ PollNoData(RunGaps)
    \/ GyroSample(RunGaps, RunInputs)
    \/ ReturnFromRun

NextTask == TaskStep \/ RequestStop

SpecTask == Init /\ [][NextTask]_vars

\* the task's thread keeps being scheduled; nothing is assumed about the stop request
SpecTaskLive == Init /\ [][NextTask]_vars /\ WF_vars(TaskStep)

-----------------------------------------------------------------------------
(* run() around the loop-rate estimate: the loop has been running for some   *)
(* seconds, disarmed, and is about to complete one second of accumulated dt  *)

\* the object after n more iterations, DT_MAX apart, that found no message published
RECURSIVE QuietIterations(_, _)
QuietIterations(s, n) ==
    IF n = 0 THEN s
    ELSE CHOOSE r \in { ProcessSample(t, DT_MAX, Quiet(GyroFinite)).s
                        : t \in {QuietIterations(s, n - 1)} } : TRUE

\* <<microseconds spent in wait timeouts before the first sample, samples processed since>>
WarmStarts == { <<22 * POLL_TIMEOUT, 49>>, <<23 * POLL_TIMEOUT, 48>> }
LoopRateHorizon == 3400000 + POLL_TIMEOUT

InitLoopRate ==
    \E w \in WarmStarts :
        /\ mc = QuietIterations(MC0, w[2])
        /\ now = w[1] + w[2] * DT_MAX
        /\ last_run = now
        /\ task_start = 0
        /\ dt_accumulator = w[2] * DT_MAX
        /\ loop_counter = w[2]
        /\ dt = DT_MAX
        /\ pret = 1
        /\ pubs = << >>
        /\ op = "none"
        /\ should_exit = FALSE
        /\ subs = Subscribed
        /\ pc = "head"
        /\ arrived = NoMsg

LoopRateInputs ==
    { Quiet(GyroFinite),
      [Quiet(GyroFinite) EXCEPT !.control_mode = New(Flying)],
      [Quiet(GyroFinite) EXCEPT !.control_mode = New(ControlMode0)] }

NextLoopRate ==
    \/ EnterIterationUntil(LoopRateHorizon)
    \/ GyroSampleUntil({DT_MAX}, LoopRateInputs, LoopRateHorizon)

SpecLoopRate == InitLoopRate /\ [][NextLoopRate]_vars

-----------------------------------------------------------------------------
(* The attitude law on its own: control_attitude called on the classical     *)
(* route, the attitude, its setpoint and the yaw gain changing between calls *)

\* estimated attitudes: level, yawed half a turn, pitched by 74 degrees
HarnessAttitudes ==
    { [q |-> QuatIdentity], [q |-> Quat(0, 0, 0, Unit)],
      [q |-> Quat((4 * Unit) \div 5, 0, (3 * Unit) \div 5, 0)] }
\* desired attitudes: level, upside down about x and about y, yawed by 74 degrees,
\* and the turn that points the thrust axis opposite to the pitched attitude's
HarnessSetpointQuats ==
    { QuatIdentity, Quat(0, Unit, 0, 0), Quat(0, 0, Unit, 0),
      Quat((4 * Unit) \div 5, 0, 0, (3 * Unit) \div 5),
      Quat(0, (4 * Unit) \div 5, 0, -((3 * Unit) \div 5)) }
\* MC_YAW_P for a yaw weight of 0, 1/2 and 1
HarnessYawGains == { 0, Params0.att_p[0] \div 2, Params0.att_p[0] }

\* control_attitude(dt) with the attitude setpoint its poll finds
AttitudeCall ==
    \E qd \in HarnessSetpointQuats :
        /\ mc' = control_attitude(mc, DT_MAX, New([HalfThrust EXCEPT !.q_d = qd]))
        /\ dt' = DT_MAX
        /\ op' = "attitude"
        /\ UNCHANGED loopvars

\* vehicle_attitude_poll
AttitudeInput ==
    \E m \in HarnessAttitudes :
        /\ mc' = [mc EXCEPT !._v_att = m]
        /\ op' = "input"
        /\ UNCHANGED <<dt, loopvars>>

\* parameter_update_poll
YawGainInput ==
    \E g \in HarnessYawGains :
        /\ mc' = parameters_updated([mc EXCEPT !.p = [mc.p EXCEPT !.att_p = [mc.p.att_p EXCEPT ![2] = g]]])
        /\ op' = "input"
        /\ UNCHANGED <<dt, loopvars>>

NextAttitude == AttitudeCall \/ AttitudeInput \/ YawGainInput

SpecAttitude == Init /\ [][NextAttitude]_vars

-----------------------------------------------------------------------------
(* The motor curve and the mixer on their own, at a resolution of            *)
(* 1 / CurveUnit: a throttle in [0, 1] is an integer in 0 .. CurveUnit, a    *)
(* thrust in [0, 7] an integer in 0 .. 7 * CurveUnit.  No value here leaves  *)
(* the range of a float, so the arithmetic is plain truncating arithmetic    *)

CurveUnit == 1000
CurveSteps == 25

\* c4 x^4 + c3 x^3 + c2 x^2 + c1 x + c0, the coefficients given times `scale`
Poly4At(u, x, scale, c4, c3, c2, c1, c0) ==
    TDiv((TDiv((TDiv((TDiv((TDiv(c4 * x, u) + c3) * x, u) + c2) * x, u) + c1) * x, u) + c0) * u,
         scale)

ConstrainAt(val, lo, hi) == IF val < lo THEN lo ELSE IF val > hi THEN hi ELSE val

thrust_to_throttle_at(u, thrust) ==
    Poly4At(u, ConstrainAt(thrust, 0, 7 * u), 1000 * 1000, -689, 12710, -79480, 305200, 8775)

throttle_to_thrust_at(u, throttle) ==
    Poly4At(u, ConstrainAt(throttle, 0, u), 100 * 1000, 205200, -1111000, 1565000, 73790, 2543)

\* mixer(roll, pitch, yaw, throttle): the _mixer message it fills and publishes
mixer_at(u, roll, pitch, yaw, throttle) ==
    LET thrust == 4 * throttle_to_thrust_at(u, throttle)
        a(x) == TDiv(x * 2143, 1000)
        b(x) == TDiv(x * 1427, 100)
        c(x) == TDiv(x * 25, 100)
        dd(x) == TDiv(x * 354, 1000)
        F1 == -a(roll) + a(pitch) + b(yaw) + c(thrust)
        F2 == a(roll) - a(pitch) + b(yaw) + c(thrust)
        F3m == a(roll) + a(pitch) - b(yaw) + c(thrust)
        F4m == -a(roll) - a(pitch) - b(yaw) + c(thrust)
        t1 == thrust_to_throttle_at(u, F1)
        t2 == thrust_to_throttle_at(u, F2)
        t3 == thrust_to_throttle_at(u, F3m)
        t4 == thrust_to_throttle_at(u, F4m)
    IN [input_roll |-> roll, input_pitch |-> pitch, input_yaw |-> yaw, input_thrust |-> throttle,
        F1 |-> F1, F2 |-> F2, F3 |-> F3m, F4 |-> F4m,
        throttle1 |-> t1, throttle2 |-> t2, throttle3 |-> t3, throttle4 |-> t4,
        output_roll |-> -dd(t1) + dd(t2) + dd(t3) - dd(t4),
        output_pitch |-> dd(t1) - dd(t2) + dd(t3) - dd(t4),
        output_yaw |-> c(t1 + t2 - t3 - t4),
        output_thrust |-> c(t1 + t2 + t3 + t4)]

\* the throttles of [0, 1] on a grid of CurveSteps steps
CurveThrottles == { (k * CurveUnit) \div CurveSteps : k \in 0 .. CurveSteps }
\* roll moments: none, and a small one
CurveMoments == { 0, CurveUnit \div 50 }

\* thrust_to_throttle(throttle_to_thrust(t))
CurveCall ==
    /\ \E t \in CurveThrottles :
          pubs' = << Msg("motor_curve",
                         [throttle |-> t,
                          thrust |-> throttle_to_thrust_at(CurveUnit, t),
                          back |-> thrust_to_throttle_at(CurveUnit,
                                       throttle_to_thrust_at(CurveUnit, t))]) >>
    /\ op' = "curve"
    /\ UNCHANGED <<mc, dt, loopvars_curve>>

\* mixer(roll, 0, 0, t); the message is kept in 1 / CurveUnit
MixerCall ==
    /\ \E t \in CurveThrottles, roll \in CurveMoments :
          \E m \in {mixer_at(CurveUnit, roll, 0, 0, t)} :
              /\ mc' = [mc EXCEPT !._mixer = m, !._mixer_pub = TRUE]
              /\ pubs' = << Msg("mixer", m) >>
    /\ op' = "mixer"
    /\ UNCHANGED <<dt, loopvars_curve>>

NextCurve == CurveCall \/ MixerCall

SpecCurve == Init /\ [][NextCurve]_vars

\* the strategy switches as the parameters give them: <<switch_ude, switch_mixer,
\* use_platform, input_source>>; switch_ude = 4 names no variant
PipeStrategies ==
    { <<0, 0, 0, 0>>, <<1, 0, 0, 0>>, <<2, 0, 0, 0>>, <<3, 1, 0, 0>>, <<4, 0, 0, 0>>,
      <<1, 0, 1, 2>>, <<3, 1, 1, 2>>, <<0, 0, 1, 2>> }
\* the rate limits lowered to 60 deg/s on every axis
PipeParams(k) ==
    [Params0 EXCEPT !.switch_ude = k[1], !.switch_mixer = k[2], !.use_platform = k[3],
                    !.input_source = k[4],
                    !.Kp_ude = 25 * Unit, !.Kd_ude = 25 * Unit,
                    !.rate_max = Vec3(60, 60, 60)]

\* control modes: acro (manual rates), rattitude, nothing enabled
Acro ==
    [ControlMode0 EXCEPT !.flag_armed = TRUE,
                         !.flag_control_rates_enabled = TRUE,
                         !.flag_control_manual_enabled = TRUE]
Rattitude ==
    [Flying EXCEPT !.flag_control_manual_enabled = TRUE,
                   !.flag_control_rattitude_enabled = TRUE]
\* the roll stick beyond the rattitude threshold, and back at the centre
StickOver == [Manual0 EXCEPT !.y = Unit, !.z = Unit \div 2]
StickCentre == [Manual0 EXCEPT !.z = Unit \div 2]
GearDown == [HalfThrust EXCEPT !.landing_gear = Unit]
RatesSpHalf == [roll |-> 0, pitch |-> 0, yaw |-> 0, thrust |-> Unit \div 2]

PipeInputs ==
    { Quiet(GyroFinite) }
    \cup { [Quiet(GyroFinite) EXCEPT !.params = New(PipeParams(k)),
                                     !.control_mode = New(Flying),
                                     !.status = New(VehicleStatus0),
                                     !.attitude_sp = New(HalfThrust)] : k \in PipeStrategies }
    \cup { [Quiet(GyroFinite) EXCEPT !.control_mode = New(m)]
              : m \in { Terminating, Acro, Rattitude, ControlMode0 } }
    \cup { [Quiet(GyroFinite) EXCEPT !.manual = New(m)] : m \in { StickOver, StickCentre } }
    \cup { [Quiet(GyroFinite) EXCEPT !.attitude_sp = New(GearDown)],
           [Quiet(GyroFinite) EXCEPT !.rates_sp = New(RatesSpHalf)] }

NextPipe ==
    \/ EnterIteration
    \/ PollTimeout
    \/ GyroSample(RunGaps, PipeInputs)

SpecPipe == Init /\ [][NextPipe]_vars

-----------------------------------------------------------------------------
(* run() around the output topics: the rate-control circuit breaker is set   *)
(* and cleared by parameter updates, and the vehicle status arrives late     *)

VtolStatus == [VehicleStatus0 EXCEPT !.is_vtol = TRUE]
\* <<switch_ude, switch_mixer, use_platform, input_source>>
BreakerStrategies == { <<0, 0, 0, 0>>, <<1, 0, 0, 0>>, <<3, 1, 0, 0>>, <<4, 0, 0, 0>> }
\* flight termination requested while no controller is enabled
TerminatingIdle == [ControlMode0 EXCEPT !.flag_control_termination_enabled = TRUE]
BreakerParams(k, b) == [PipeParams(k) EXCEPT !.cbrk_rate_ctrl = b]

BreakerInputs ==
    { Quiet(GyroFinite) }
    \cup { [Quiet(GyroFinite) EXCEPT !.params = New(BreakerParams(k, b)),
                                     !.control_mode = New(Flying),
                                     !.attitude_sp = New(HalfThrust)]
           : k \in BreakerStrategies, b \in BOOLEAN }
    \cup { [Quiet(GyroFinite) EXCEPT !.status = New(m)] : m \in { VehicleStatus0, VtolStatus } }
    \cup { [Quiet(GyroFinite) EXCEPT !.control_mode = New(m)]
           : m \in { Terminating, TerminatingIdle, Acro, ControlMode0 } }
    \cup { [Quiet(GyroFinite) EXCEPT !.attitude_sp = New(GearDown)] }

NextBreaker == EnterIteration \/ PollTimeout \/ GyroSample(RunGaps, BreakerInputs)

SpecBreaker == Init /\ [][NextBreaker]_vars

-----------------------------------------------------------------------------
(* run() around the gyro selection: the task starts with any number of gyro   *)
(* instances advertised, and sensor-correction messages name any instance    *)

\* the length of _sensor_gyro_sub; run() handles the instances 0, 1 and 2
MAX_GYRO_COUNT == 3
\* orb_group_count(ORB_ID(sensor_gyro)) at task start
GyroGroupCounts == 0 .. (MAX_GYRO_COUNT + 1)
\* "_gyro_count = math::min(orb_group_count(...), MAX_GYRO_COUNT)", raised to 1 from 0
gyro_count_at_start(n) ==
    LET c == IF n < MAX_GYRO_COUNT THEN n ELSE MAX_GYRO_COUNT
    IN IF c = 0 THEN 1 ELSE c
\* the selected_gyro_instance of a message is a uint8_t
GyroInstances == (0 .. MAX_GYRO_COUNT) \cup { 255 }
GyroInputs ==
    { Quiet(GyroFinite) }
    \cup { [Quiet(GyroFinite) EXCEPT
             !.sensor_correction = New([SensorCorrection0 EXCEPT !.selected_gyro_instance = i])]
           : i \in GyroInstances }

\* the state at the first "while (!should_exit())" when n gyro instances are advertised
InitGyro ==
    \E n \in GyroGroupCounts :
        /\ mc = [MC0 EXCEPT !._gyro_count = gyro_count_at_start(n)]
        /\ now = 0
        /\ last_run = 0
        /\ task_start = 0
        /\ dt_accumulator = 0
        /\ loop_counter = 0
        /\ dt = 0
        /\ pret = 0
        /\ pubs = << >>
        /\ op = "none"
        /\ should_exit = FALSE
        /\ subs = Unsubscribed(mc) \cup { <<"_outputs_sub", 0>> }
        /\ pc = "head"
        /\ arrived = NoMsg

NextGyro == EnterIteration \/ PollTimeout \/ GyroSample(RunGaps, GyroInputs)

SpecGyro == InitGyro /\ [][NextGyro]_vars

-----------------------------------------------------------------------------
(* Properties of the rate controller (checked under SpecRates) *)

Armed(s) == s._v_control_mode.flag_armed /\ s._vehicle_status.is_rotary_wing
WithinLimit(s, i) ==
    /\ ~FLt(s._rates_int[i], FNeg(s._rate_int_lim[i]))
    /\ ~FGt(s._rates_int[i], s._rate_int_lim[i])

\* the state a RatesCall step hands to control_attitude_rates
CallState == [mc EXCEPT !._sensor_gyro = mc'._sensor_gyro]
\* the rate error of that call, and the gain the integral uses
CallErr == VSub(mc._rates_sp, CorrectedRates(CallState))
CallIGain == Emult(mc._rate_i, pid_attenuations(mc, mc.p.tpa_breakpoint_i, mc.p.tpa_rate_i))

\* C5 as stated: with the thrust setpoint below MIN_TAKEOFF_THRUST a
\* control_attitude_rates call leaves the rate integrator of every axis as it was.
C5_Original ==
    [][ (op' = "rates" /\ FLt(mc._thrust_sp, MIN_TAKEOFF_THRUST))
        => mc'._rates_int = mc._rates_int ]_vars

\* C5 amended: with the thrust setpoint below MIN_TAKEOFF_THRUST, the vehicle armed
\* and rotary-wing, and the integrator within the configured limit, a
\* control_attitude_rates call leaves the rate integrator of every axis as it was.
C5_Amended ==
    [][ (op' = "rates" /\ FLt(mc._thrust_sp, MIN_TAKEOFF_THRUST) /\ Armed(mc)
         /\ \A i \in Axes : WithinLimit(mc, i))
        => mc'._rates_int = mc._rates_int ]_vars

\* an armed call below the threshold has run with a non-zero integrator and a rate error
C5_Witness ==
    /\ op = "rates" /\ Armed(mc)
    /\ FLt(mc._thrust_sp, MIN_TAKEOFF_THRUST)
    /\ mc._rates_int[0] # 0
    /\ mc._rates_prev[0] # 0
    /\ dt = DT_MAX

\* C6 as stated: in one control_attitude_rates call, an axis whose positive-saturation
\* flag is set and whose rate error is positive does not increase its integrator, and
\* an axis whose negative-saturation flag is set and whose rate error is negative does
\* not decrease it.
C6_Original ==
    [][ op' = "rates" =>
        \A err \in {CallErr}, i \in Axes :
            /\ (positive_saturation(mc, i) /\ FGt(err[i], 0))
                  => ~FGt(mc'._rates_int[i], mc._rates_int[i])
            /\ (negative_saturation(mc, i) /\ FLt(err[i], 0))
                  => ~FLt(mc'._rates_int[i], mc._rates_int[i]) ]_vars

\* C6 amended: the same, for a call made while the vehicle is armed and rotary-wing and
\* the axis's integrator is within the configured limit; and an axis none of whose own
\* flags is set integrates its own error whatever the flags of the other axes are.
C6_Amended ==
    [][ (op' = "rates" /\ Armed(mc)) =>
        \A err \in {CallErr}, gain \in {CallIGain}, i \in Axes :
            \A cand \in {RateICandidate(mc._rates_int[i], gain[i], err[i], dt')} :
                /\ (WithinLimit(mc, i) /\ positive_saturation(mc, i) /\ FGt(err[i], 0))
                      => ~FGt(mc'._rates_int[i], mc._rates_int[i])
                /\ (WithinLimit(mc, i) /\ negative_saturation(mc, i) /\ FLt(err[i], 0))
                      => ~FLt(mc'._rates_int[i], mc._rates_int[i])
                /\ (/\ ~positive_saturation(mc, i) /\ ~negative_saturation(mc, i)
                    /\ FGt(mc._thrust_sp, MIN_TAKEOFF_THRUST)
                    /\ PX4_ISFINITE(cand)
                    /\ FGt(cand, FNeg(mc._rate_int_lim[i]))
                    /\ FLt(cand, mc._rate_int_lim[i]))
                      => mc'._rates_int[i] = cand ]_vars

\* roll is positively saturated and did not integrate its positive error, while yaw,
\* which has no flag set, integrated the same error in the same call
C6_Witness ==
    /\ op = "rates" /\ Armed(mc)
    /\ FGt(mc._thrust_sp, MIN_TAKEOFF_THRUST)
    /\ mc._saturation_status.roll_pos /\ ~mc._saturation_status.yaw_pos
    /\ FLt(mc._rates_prev[0], 0) /\ FLt(mc._rates_prev[2], 0)
    /\ dt = DT_MAX
    /\ mc._rates_int[0] = 0
    /\ mc._rates_int[2] > 0

\* C7: at the end of every control_attitude_rates call each axis of the rate
\* integrator is within the limit configured at that call, |_rates_int(i)| <= _rate_int_lim(i).
C7_IntegratorWithinLimit ==
    op = "rates" =>
        \A i \in Axes :
            /\ PX4_ISFINITE(mc._rates_int[i])
            /\ fabsf(mc._rates_int[i]) <= mc._rate_int_lim[i]

\* a call has run after the limit was lowered below the integrator: the explicit limit acted
C7_Witness ==
    /\ op = "rates" /\ Armed(mc)
    /\ mc._rate_int_lim[0] < Unit
    /\ mc._rates_int[0] = mc._rate_int_lim[0]

\* C8 as stated, for the integral update of an armed, rotary-wing call (thrust above
\* the threshold): a candidate that is non-finite or outside (-limit, +limit) is
\* discarded and the integrator keeps its previous value, and any other candidate is
\* committed.
C8_Original ==
    [][ (op' = "rates" /\ FGt(mc._thrust_sp, MIN_TAKEOFF_THRUST) /\ Armed(mc)) =>
        \A err \in {CallErr}, gain \in {CallIGain}, i \in Axes :
            \A prev \in {mc._rates_int[i]}, lim \in {mc._rate_int_lim[i]} :
                \A cand \in {FAdd(prev, FMulDt(FMul(gain[i], AntiWindupErr(mc, i, err[i])), dt'))} :
                    LET bad == IsNaN(cand) \/ IsInf(cand) \/ cand <= -lim \/ cand >= lim
                    IN mc'._rates_int[i] = IF bad THEN prev ELSE cand ]_vars

\* C8 amended: in the integral update of a control_attitude_rates call (thrust above
\* the threshold), a candidate that is non-finite or outside (-limit, +limit) is
\* discarded and the integrator keeps the value it had (zero when the call's disarm
\* reset ran), and any other candidate is committed; the kept or committed value is
\* then constrained to [-limit, +limit].
C8_CommitOrDiscard ==
    [][ (op' = "rates" /\ FGt(mc._thrust_sp, MIN_TAKEOFF_THRUST)) =>
        \A err \in {CallErr}, gain \in {CallIGain}, i \in Axes :
            \A prev \in {IF Armed(mc) THEN mc._rates_int[i] ELSE 0}, lim \in {mc._rate_int_lim[i]} :
                \A cand \in {FAdd(prev, FMulDt(FMul(gain[i], AntiWindupErr(mc, i, err[i])), dt'))} :
                    LET bad == IsNaN(cand) \/ IsInf(cand) \/ cand <= -lim \/ cand >= lim
                    IN mc'._rates_int[i] = Constrain(IF bad THEN prev ELSE cand, FNeg(lim), lim) ]_vars

\* a NaN candidate (NaN gyro rate on pitch) was discarded: pitch kept its non-zero value
C8_Witness ==
    /\ op = "rates" /\ Armed(mc)
    /\ FGt(mc._thrust_sp, MIN_TAKEOFF_THRUST)
    /\ IsNaN(mc._rates_prev[1])
    /\ mc._rates_int[1] # 0
    /\ WithinLimit(mc, 1)

-----------------------------------------------------------------------------
(* Properties of the UDE variants (checked under SpecUde) *)

\* the integrators and the UDE estimate state are all exactly zero
UdeStateZero(s) ==
    /\ s._rates_int = Zero3
    /\ s.integral_ude = Zero3
    /\ s._ude.torque_est = Zero3
    /\ s._ude.f1_est = Zero3
    /\ s._ude.f1_dot_est = Zero3
    /\ s._ude.f2_est = Zero3
    /\ s._ude.f_est = Zero3

\* C1 as stated: after one update of a UDE variant (each of which runs
\* control_attitude_rates) executed while the armed flag is false, the rate integrator,
\* the UDE integral and the UDE estimates are all exactly zero, whatever the thrust
\* setpoint and the rate error are.
C1_Original ==
    [][ (op' = "ude" /\ ~mc._v_control_mode.flag_armed) => UdeStateZero(mc') ]_vars

\* C9 as stated: in every update of a UDE variant in which the vehicle is disarmed, or
\* the thrust setpoint is below MIN_TAKEOFF_THRUST, or the vehicle is not rotary-wing,
\* integral_ude is zero after the update.
C9_Original ==
    [][ (op' = "ude" /\ (\/ ~mc._v_control_mode.flag_armed
                         \/ FLt(mc'._ude.thrust_sp, MIN_TAKEOFF_THRUST)
                         \/ ~mc._vehicle_status.is_rotary_wing))
        => mc'.integral_ude = Zero3 ]_vars

\* C10: in every state reached by updates of the UDE variants, in any order and with any
\* switching between them, the roll and pitch entries of integral_ude are finite and
\* strictly inside (-INT_LIMIT, +INT_LIMIT), and the yaw entry is zero.
C10_UdeIntegralInsideLimit ==
    /\ \A i \in UdeAxes :
          /\ PX4_ISFINITE(mc.integral_ude[i])
          /\ mc.integral_ude[i] > -INT_LIMIT
          /\ mc.integral_ude[i] < INT_LIMIT
    /\ mc.integral_ude[AXIS_INDEX_YAW] = 0

\* control_attitude_ude has run armed and above the takeoff thrust on a NaN rate sample
\* while the roll integral was non-zero: the NaN candidate was discarded, the value kept
C10_Witness ==
    /\ op = "ude" /\ mc.switch_ude = 1 /\ Armed(mc)
    /\ FGt(mc._ude.thrust_sp, MIN_TAKEOFF_THRUST)
    /\ IsNaN(mc._ude.error_attitude_rate[0])
    /\ IsNaN(mc._ude.u_l_kd[0])
    /\ mc.integral_ude[0] # 0
    /\ PX4_ISFINITE(mc.integral_ude[0])

-----------------------------------------------------------------------------
(* Properties of the loop (checked under SpecRun and SpecClock) *)

ActuatorTopics == { "actuator_controls_0", "actuator_controls_virtual_mc" }
ActuatorChannels == 0 .. 3

\* C2: at the end of every loop iteration in which the flight-termination flag is set and
\* the vehicle is not a VTOL, the rate setpoint, the thrust setpoint, the rate integrator,
\* the UDE integral, the rate-controller output and actuator channels 0 to 3 are all zero,
\* whichever strategy (classical or a UDE variant) is configured.
C2_TerminationZeroes ==
    (mc._v_control_mode.flag_control_termination_enabled /\ ~mc._vehicle_status.is_vtol)
        => /\ mc._rates_sp = Zero3
           /\ mc._thrust_sp = 0
           /\ mc._rates_int = Zero3
           /\ mc.integral_ude = Zero3
           /\ mc._att_control = Zero3
           /\ \A i \in ActuatorChannels : mc._actuators[i] = 0
           /\ \A k \in 1 .. Len(pubs) :
                 (k = Len(pubs) /\ pubs[k].topic \in ActuatorTopics)
                    => \A i \in ActuatorChannels : pubs[k].data[i] = 0

\* a terminating iteration of a UDE strategy: the variant ran armed above the takeoff
\* thrust on a non-zero rate and produced a non-zero torque, and the iteration ended with
\* everything zeroed and a zero actuator command published last
C2_Witness ==
    /\ op = "sample"
    /\ mc._v_control_mode.flag_control_termination_enabled /\ ~mc._vehicle_status.is_vtol
    /\ mc.switch_ude = 1 /\ mc._v_control_mode.flag_armed
    /\ FGt(mc._ude.thrust_sp, MIN_TAKEOFF_THRUST)
    /\ mc._ude.u_total[0] # 0
    /\ mc._ude.u_l_kd[0] # 0
    /\ Len(pubs) > 0
    /\ pubs[Len(pubs)].topic \in ActuatorTopics
    /\ mc.integral_ude = Zero3

\* C3 as stated: every actuator command the loop publishes has finite values in
\* channels 0 to 3, on every route and including after the battery-scale multiplication.
C3_Original ==
    \A k \in 1 .. Len(pubs) :
        pubs[k].topic \in ActuatorTopics
            => \A i \in ActuatorChannels : PX4_ISFINITE(pubs[k].data[i])

\* C4: the dt of every processed sample lies in [DT_MIN, DT_MAX]: it is the clock delta
\* since the last processed sample, raised to DT_MIN when smaller and lowered to DT_MAX
\* when larger, whatever timeouts and poll errors came in between; and it is the dt the
\* iteration's updates use (the UDE status clock start_time advances by it).
C4_DtClamped ==
    [][ op' = "sample" =>
          /\ dt' >= DT_MIN /\ dt' <= DT_MAX
          /\ (now' - last_run < DT_MIN) => dt' = DT_MIN
          /\ (now' - last_run > DT_MAX) => dt' = DT_MAX
          /\ (now' - last_run >= DT_MIN /\ now' - last_run <= DT_MAX) => dt' = now' - last_run
          /\ last_run' = now'
          /\ mc'._ude.start_time = mc._ude.start_time + dt' ]_vars

\* the first sample arrived 50 ms after the task started and was processed with dt = 20 ms
C4_Witness ==
    /\ op = "sample"
    /\ loop_counter = 1
    /\ now = 50 * 1000
    /\ last_run = now
    /\ dt = DT_MAX
    /\ mc._ude.start_time = DT_MAX

-----------------------------------------------------------------------------
(* Properties of one iteration's pipeline (checked under SpecPipe) *)

\* the positions in the published messages `out` of those on the topics `topics`
Published(out, topics) == { k \in 1 .. Len(out) : out[k].topic \in topics }
\* the flight-termination block acts at the end of an iteration that leaves state s
TerminatingNow(s) ==
    s._v_control_mode.flag_control_termination_enabled /\ ~s._vehicle_status.is_vtol
UdeVariants == { 1, 2, 3 }

AttitudeLawRan(s) ==
    \/ s.switch_ude \in UdeVariants
    \/ s.switch_ude = 0 /\ s._v_control_mode.flag_control_attitude_enabled
\* the limit control_attitude applies to axis i of the rate setpoint
ApplicableRateLimit(s, i) ==
    IF (s._v_control_mode.flag_control_velocity_enabled \/ s._v_control_mode.flag_control_auto_enabled)
       /\ ~s._v_control_mode.flag_control_manual_enabled
    THEN s._auto_rate_max[i] ELSE s._mc_rate_max[i]
RateSetpointLimited(s) ==
    \A i \in Axes : PX4_ISFINITE(s._rates_sp[i]) /\ fabsf(s._rates_sp[i]) <= ApplicableRateLimit(s, i)

\* C12 as stated: after every execution of control_attitude, in every configuration
\* (platform mode and an active UDE variant included), each axis of the rate setpoint is
\* within the applicable limit: the auto limit when velocity or auto control is enabled
\* and manual control is not, the manual limit otherwise.
C12_Original ==
    [][ (op' = "sample" /\ AttitudeLawRan(mc')) => RateSetpointLimited(mc') ]_vars

\* C13 as stated: in every iteration that processes a gyro sample and publishes an
\* actuator command (flight termination aside), one strategy computed it in that
\* iteration: a UDE variant when switch_ude is non-zero, the classical rate controller
\* otherwise, for every value switch_ude can take.
C13_Original ==
    [][ (op' = "sample" /\ ~TerminatingNow(mc') /\ Published(pubs', ActuatorTopics) # {})
        => \/ mc'.switch_ude \in UdeVariants
           \/ mc'.switch_ude = 0 /\ mc'._v_control_mode.flag_control_rates_enabled ]_vars

\* the roll and pitch sticks are both at or below the rattitude threshold
SticksWithinThreshold(s) ==
    /\ ~FGt(fabsf(s._manual_control_sp.y), s.p.rattitude_thres)
    /\ ~FGt(fabsf(s._manual_control_sp.x), s.p.rattitude_thres)

\* C14 as stated: the rattitude override lasts for the tick in which it fires.  Every
\* rattitude control mode supplied to the loop has attitude control enabled, so in every
\* classical iteration in rattitude mode with both sticks within the threshold the
\* attitude law runs (attitude control is enabled for the tick and the rate setpoint it
\* computes is published once the topic is known), whether or not a control-mode
\* message arrived since the override fired.
C14_Original ==
    [][ (/\ op' = "sample"
         /\ mc'.switch_ude = 0
         /\ mc'._v_control_mode.flag_control_rattitude_enabled
         /\ SticksWithinThreshold(mc'))
        => /\ mc'._v_control_mode.flag_control_attitude_enabled
           /\ mc'._rates_sp_id # "nullptr" => Published(pubs', {mc'._rates_sp_id}) # {} ]_vars

\* the stage that produces each kind of output ran in the iteration that leaves state s
UdeStageRan(s) == s.switch_ude \in UdeVariants
MixerStageRan(s) == s.switch_ude # 0 /\ s.switch_mixer # 0
RateStageRan(s) == s.switch_ude = 0 /\ s._v_control_mode.flag_control_rates_enabled
RatesSetpointTopics == { "vehicle_rates_setpoint", "mc_virtual_rates_setpoint" }

\* C18 as stated: in every iteration that processes a gyro sample, a message of a kind is
\* published only if the stage that produces it ran in that iteration: the UDE status
\* only when a UDE variant ran, the mixer status only when the mixer ran, the
\* rate-controller status and the rate setpoint only on the classical route, the actuator
\* command only when a UDE variant or the classical rate controller computed it (or the
\* flight-termination block zeroed it).
C18_Original ==
    [][ op' = "sample"
        => /\ Published(pubs', {"ude"}) # {} => UdeStageRan(mc')
           /\ Published(pubs', {"mixer"}) # {} => MixerStageRan(mc')
           /\ Published(pubs', {"rate_ctrl_status"}) # {} => RateStageRan(mc')
           /\ Published(pubs', RatesSetpointTopics) # {} => mc'.switch_ude = 0
           /\ Published(pubs', ActuatorTopics) # {}
                 => (UdeStageRan(mc') \/ RateStageRan(mc') \/ TerminatingNow(mc')) ]_vars

\* C19 as stated: in every iteration that processes a gyro sample, a value used from an
\* input cache is the newest one published before the iteration started.  The manual
\* input, battery status, motor saturation and attitude caches hold the message the
\* iteration found published, and the landing-gear command copied into the actuator
\* message is the one of the attitude setpoint the iteration found published.
C19_Original ==
    [][ op' = "sample"
        => /\ arrived'.manual # NoMsg => mc'._manual_control_sp = arrived'.manual[1]
           /\ arrived'.battery # NoMsg => mc'._battery_status = arrived'.battery[1]
           /\ arrived'.motor_limits # NoMsg => mc'._saturation_status = arrived'.motor_limits[1]
           /\ arrived'.attitude # NoMsg => mc'._v_att = arrived'.attitude[1]
           /\ arrived'.attitude_sp # NoMsg =>
                 \A k \in Published(pubs', ActuatorTopics) :
                     pubs'[k].data[7] = arrived'.attitude_sp[1].landing_gear ]_vars

\* the position of the last actuator command among the published messages `out`
LastActuator(out) ==
    CHOOSE k \in Published(out, ActuatorTopics) : \A j \in Published(out, ActuatorTopics) : j <= k

\* C24: in an iteration with the flight-termination flag set on a non-VTOL vehicle that
\* publishes an actuator command, the zeroed command is the last actuator message of the
\* iteration: it is the stored _actuators, has zero in channels 0 to 3 and carries in
\* channel 7 what the stored message held before the zeroing.  When a controller stage
\* ran (a UDE route, or the classical route with rate control enabled) its command was
\* published earlier in the same iteration, with the same channel 7, so the iteration
\* publishes exactly two actuator commands; otherwise it publishes the zeroed one only.
C24_ZeroedCommandLast ==
    [][ (op' = "sample" /\ TerminatingNow(mc') /\ Published(pubs', ActuatorTopics) # {})
        => \A ks \in {Published(pubs', ActuatorTopics)}, last \in {LastActuator(pubs')} :
             /\ pubs'[last].data = mc'._actuators
             /\ \A i \in ActuatorChannels : pubs'[last].data[i] = 0
             /\ \A k \in ks : pubs'[k].data[7] = pubs'[last].data[7]
             /\ IF mc'.switch_ude # 0 \/ mc'._v_control_mode.flag_control_rates_enabled
                THEN Cardinality(ks) = 2 /\ pubs'[last].data[7] = mc'._v_att_sp.landing_gear
                ELSE Cardinality(ks) = 1 /\ pubs'[last].data[7] = mc._actuators[7] ]_vars

\* a terminating iteration of the classical strategy published the rate controller's
\* non-zero command and then the zeroed one, both with the landing gear channel set
C24_Witness ==
    /\ op = "sample"
    /\ TerminatingNow(mc)
    /\ mc.switch_ude = 0
    /\ Cardinality(Published(pubs, ActuatorTopics)) = 2
    /\ \E k \in Published(pubs, ActuatorTopics) :
          /\ k < LastActuator(pubs)
          /\ \E i \in ActuatorChannels : pubs[k].data[i] # 0
          /\ pubs[k].data[7] = Unit
    /\ pubs[LastActuator(pubs)].data[7] = Unit
    /\ \A i \in ActuatorChannels : pubs[LastActuator(pubs)].data[i] = 0

-----------------------------------------------------------------------------
(* Properties of the loop's scheduling *)

\* C15: a wait timeout (px4_poll returns 0) changes nothing: the controller object with
\* its integrators, filters and cached inputs, the time of the last processed sample,
\* the dt, the loop-rate accumulator and counter and the subscriptions are as before,
\* nothing is published, and the loop is back at its head, where it tests the stop request.
C15_TimeoutChangesNothing ==
    [][ (pc = "wait" /\ pret' = 0) =>
          /\ mc' = mc
          /\ last_run' = last_run
          /\ dt' = dt
          /\ dt_accumulator' = dt_accumulator
          /\ loop_counter' = loop_counter
          /\ task_start' = task_start
          /\ subs' = subs
          /\ pubs' = << >>
          /\ pc' = "head" ]_vars

\* the wait timed out 100 ms after a sample had been processed
C15_Witness ==
    /\ op = "timeout" /\ pret = 0
    /\ last_run > 0
    /\ now = last_run + POLL_TIMEOUT
    /\ mc._ude.start_time = DT_MAX
    /\ pc = "head"

\* C16: when run() has returned, no subscription opened at task start remains open.
C16_Original ==
    pc = "returned" => subs = {}

\* C17: once the stop request is raised the loop eventually exits, whatever the wait
\* returns (sample, timeout, error); run() returns only from the loop head, with the stop
\* request raised, never from inside an iteration; and every wait is bounded by 100 ms.
C17_StopLeadsToExit ==
    /\ should_exit ~> (pc = "returned")
    /\ [][ /\ (pc' = "returned" /\ pc # "returned") => (pc = "head" /\ should_exit)
           /\ (pc = "wait" /\ pc' # "wait") => (pc' = "head" /\ now' <= now + POLL_TIMEOUT) ]_vars

\* run() has returned after a stop request that was raised while samples were processed
C17_Witness ==
    /\ pc = "returned" /\ should_exit
    /\ op = "return"
    /\ last_run > 0

-----------------------------------------------------------------------------
(* Properties of the loop-rate estimate (checked under SpecLoopRate) *)

\* C20: the loop rate is re-estimated, and the derivative filters re-tuned to it, only
\* in an iteration in which the vehicle is disarmed or fewer than 3.3 s have passed since
\* task start, and only when the dt accumulated over such iterations exceeds 1 s; the
\* accumulator and the iteration counter are then both zero.  An iteration of that kind
\* that is not yet due adds its dt and counts itself; an iteration while armed and past
\* the start window changes neither the estimate nor the accumulator nor the counter.
C20_LoopRateEstimate ==
    [][ IF op' = "sample"
        THEN LET eligible == ~mc'._v_control_mode.flag_armed
                             \/ (now' - task_start) < LOOP_RATE_WINDOW
                 due == eligible /\ dt_accumulator + dt' > USEC_PER_SEC
             IN /\ due =>
                     /\ mc'._loop_update_rate_hz =
                          (mc._loop_update_rate_hz
                           + ((loop_counter + 1) * USEC_PER_SEC) \div (dt_accumulator + dt')) \div 2
                     /\ \A i \in Axes :
                          /\ mc'._lp_filters_d[i].sample_freq = mc'._loop_update_rate_hz
                          /\ mc'._lp_filters_d[i].cutoff_freq = mc'.p.d_term_cutoff_freq
                     /\ dt_accumulator' = 0 /\ loop_counter' = 0
                /\ ~due => mc'._loop_update_rate_hz = mc._loop_update_rate_hz
                /\ (eligible /\ ~due) =>
                     /\ dt_accumulator' = dt_accumulator + dt'
                     /\ loop_counter' = loop_counter + 1
                /\ ~eligible =>
                     /\ dt_accumulator' = dt_accumulator
                     /\ loop_counter' = loop_counter
        ELSE /\ mc'._loop_update_rate_hz = mc._loop_update_rate_hz
             /\ dt_accumulator' = dt_accumulator
             /\ loop_counter' = loop_counter ]_vars

\* past the start window, after iterations while armed that left more than 0.98 s
\* accumulated, a disarmed iteration has completed the second and re-estimated the rate
C20_Witness ==
    /\ op = "sample"
    /\ now - task_start > LOOP_RATE_WINDOW + 2 * DT_MAX
    /\ ~mc._v_control_mode.flag_armed
    /\ dt_accumulator = 0 /\ loop_counter = 0
    /\ mc._loop_update_rate_hz # initial_update_rate_hz

-----------------------------------------------------------------------------
(* Properties of the motor curve and the mixer (checked under SpecCurve) *)

\* C21 as stated: for every throttle t in [0, 1], thrust_to_throttle(throttle_to_thrust(t))
\* differs from t by at most 1% (of full throttle, the widest reading of the tolerance).
C21_Original ==
    \A k \in Published(pubs, {"motor_curve"}) :
        /\ 100 * (pubs[k].data.back - pubs[k].data.throttle) <= CurveUnit
        /\ 100 * (pubs[k].data.throttle - pubs[k].data.back) <= CurveUnit

\* C22 as stated: for every commanded thrust in [0, 1], the mixer called with roll = pitch
\* = yaw = 0 re-mixes to the commanded thrust (within half a percent, far wider than the
\* rounding of the arithmetic) and to zero roll, pitch and yaw, the four motor throttles
\* being equal.
C22_Original ==
    \A k \in Published(pubs, {"mixer"}) :
        LET m == pubs[k].data
        IN (m.input_roll = 0 /\ m.input_pitch = 0 /\ m.input_yaw = 0)
           => /\ m.throttle1 = m.throttle2 /\ m.throttle2 = m.throttle3 /\ m.throttle3 = m.throttle4
              /\ m.output_roll = 0 /\ m.output_pitch = 0 /\ m.output_yaw = 0
              /\ 200 * (m.output_thrust - m.input_thrust) <= CurveUnit
              /\ 200 * (m.input_thrust - m.output_thrust) <= CurveUnit

-----------------------------------------------------------------------------
(* Properties of the attitude law (checked under SpecAttitude) *)

\* the degenerate test of control_attitude fires for the attitude q and the desired qd
DegenerateTestFires(q, qd) ==
    \E r \in {QuatFromTwoVectors(dcm_z(q), dcm_z(qd))} :
        fabsf(r[1]) >= Unit \/ fabsf(r[2]) >= Unit

-----------------------------------------------------------------------------
(* Properties of the output topics (checked under SpecBreaker) *)

\* the topics fixed by a vehicle status with the given is_vtol flag
TopicsFor(is_vtol) ==
    IF is_vtol THEN <<"mc_virtual_rates_setpoint", "actuator_controls_virtual_mc">>
    ELSE <<"vehicle_rates_setpoint", "actuator_controls_0">>

\* C25: no actuator command is published in an iteration in which the rate-control
\* circuit breaker is enabled or in which no vehicle status has yet fixed the actuator
\* topic, on the UDE, classical and termination routes alike; what is published goes to
\* the fixed topics.  The rate-setpoint and actuator topics are fixed together, by the
\* is_vtol flag of the first vehicle status the loop receives, and never change.
C25_BreakerAndTopics ==
    [][ /\ op' = "sample" =>
             /\ (mc'._actuators_0_circuit_breaker_enabled \/ mc'._actuators_id = "nullptr")
                   => Published(pubs', ActuatorTopics) = {}
             /\ \A k \in Published(pubs', ActuatorTopics) : pubs'[k].topic = mc'._actuators_id
             /\ \A k \in Published(pubs', RatesSetpointTopics) : pubs'[k].topic = mc'._rates_sp_id
        /\ IF mc._rates_sp_id = "nullptr"
           THEN /\ mc._actuators_id = "nullptr"
                /\ IF op' = "sample" /\ arrived'.status # NoMsg
                   THEN <<mc'._rates_sp_id, mc'._actuators_id>> = TopicsFor(arrived'.status[1].is_vtol)
                   ELSE mc'._rates_sp_id = "nullptr" /\ mc'._actuators_id = "nullptr"
           ELSE mc'._rates_sp_id = mc._rates_sp_id /\ mc'._actuators_id = mc._actuators_id ]_vars

\* the circuit breaker is enabled in an iteration whose actuator topic is fixed: the rate
\* controller ran and published its status, and no actuator command was published; the
\* topics are those of the first status (not VTOL) though the latest status says VTOL
C25_Witness ==
    /\ op = "sample"
    /\ mc._actuators_0_circuit_breaker_enabled
    /\ mc._actuators_id = "actuator_controls_0"
    /\ mc._rates_sp_id = "vehicle_rates_setpoint"
    /\ mc._vehicle_status.is_vtol
    /\ mc._v_control_mode.flag_control_rates_enabled
    /\ Published(pubs, {"rate_ctrl_status"}) # {}
    /\ Published(pubs, ActuatorTopics) = {}

\* control_attitude ran in the step: the attitude setpoint the iteration found was
\* taken into the cache and the attitude was read
AttitudeLawActed ==
    /\ arrived'.attitude_sp # NoMsg => mc'._v_att_sp = arrived'.attitude_sp[1]
    /\ arrived'.attitude_sp = NoMsg => mc'._v_att_sp = mc._v_att_sp
    /\ mc'._ude.attitude_now = EulerFromQuat(mc'._v_att.q)
\* control_attitude did not run in the step
AttitudeLawIdle ==
    /\ mc'._v_att_sp = mc._v_att_sp
    /\ mc'._ude.attitude_now = mc._ude.attitude_now
\* control_attitude_rates ran in the step, on the gyro sample of the iteration
RateControllerActed ==
    /\ mc'._rates_prev = CorrectedRates(mc')
    /\ mc'._ude.attitude_rate_now = CorrectedRates(mc')
\* control_attitude_rates did not run in the step
RateControllerIdle ==
    /\ mc'._rates_prev = mc._rates_prev
    /\ mc'._ude.attitude_rate_now = mc._ude.attitude_rate_now
\* an actuator command can leave: the circuit breaker is off and the topic is fixed
OutputOpen(s) == ~s._actuators_0_circuit_breaker_enabled /\ s._actuators_id # "nullptr"

\* C26 as stated: on the classical path an actuator command and a rate-controller status
\* are published only when the rate-control flag is enabled, and the attitude law runs
\* only when the attitude-control flag is enabled; on the UDE path (switch_ude non-zero)
\* the attitude law and the rate controller run and an actuator command is published in
\* every processed iteration, whatever the flags are.
C26_Original ==
    [][ op' = "sample" =>
          IF mc'.switch_ude = 0
          THEN /\ Published(pubs', ActuatorTopics) # {} => mc'._v_control_mode.flag_control_rates_enabled
               /\ Published(pubs', {"rate_ctrl_status"}) # {}
                     => mc'._v_control_mode.flag_control_rates_enabled
               /\ ~mc'._v_control_mode.flag_control_attitude_enabled => AttitudeLawIdle
          ELSE /\ AttitudeLawActed
               /\ RateControllerActed
               /\ Published(pubs', ActuatorTopics) # {} ]_vars

\* C26 amended: on the classical path the rate controller runs and its status is
\* published exactly when the rate-control flag is enabled, an actuator command is
\* published only when that flag is enabled or the flight-termination block acts, and
\* the attitude law runs exactly when the attitude-control flag is enabled.  With
\* switch_ude 1, 2 or 3 the attitude law and the rate controller run whatever the flags
\* are; with any other non-zero switch_ude neither runs.  For every non-zero switch_ude
\* an actuator command is published exactly when the circuit breaker is off and a
\* vehicle status has fixed the topic.
C26_Amended ==
    [][ op' = "sample" =>
          IF mc'.switch_ude = 0
          THEN /\ Published(pubs', ActuatorTopics) # {}
                     => (mc'._v_control_mode.flag_control_rates_enabled \/ TerminatingNow(mc'))
               /\ Published(pubs', {"rate_ctrl_status"}) # {}
                     <=> mc'._v_control_mode.flag_control_rates_enabled
               /\ IF mc'._v_control_mode.flag_control_rates_enabled
                  THEN RateControllerActed ELSE RateControllerIdle
               /\ IF mc'._v_control_mode.flag_control_attitude_enabled
                  THEN AttitudeLawActed ELSE AttitudeLawIdle
          ELSE /\ IF mc'.switch_ude \in UdeVariants
                  THEN AttitudeLawActed /\ RateControllerActed
                  ELSE AttitudeLawIdle /\ RateControllerIdle
               /\ Published(pubs', ActuatorTopics) # {} <=> OutputOpen(mc')
               /\ Published(pubs', {"rate_ctrl_status"}) = {} ]_vars

\* a UDE variant processed a sample with the attitude-control and rate-control flags
\* both disabled: the rate controller took the gyro sample and an actuator command left
C26_Witness ==
    /\ op = "sample"
    /\ mc.switch_ude = 1
    /\ ~mc._v_control_mode.flag_control_rates_enabled
    /\ ~mc._v_control_mode.flag_control_attitude_enabled
    /\ mc._rates_prev = CorrectedRates(mc) /\ mc._rates_prev # Zero3
    /\ mc._ude.attitude_now = EulerFromQuat(mc._v_att.q)
    /\ Published(pubs, ActuatorTopics) # {}

-----------------------------------------------------------------------------
(* Properties of the gyro selection (checked under SpecGyro) *)

\* the slot run() waits on and copies from holds a subscription
SelectedGyroSubscribed == <<"_sensor_gyro_sub", mc._selected_gyro>> \in subs

\* C27: the selected gyro index always refers to a subscribed gyro instance:
\* 0 <= _selected_gyro < _gyro_count <= MAX_GYRO_COUNT in every state; a sensor-correction
\* message naming an instance at or beyond the gyro count leaves the selection unchanged,
\* the gyro count never changes after task start, and every wait and every copy of a
\* sample uses a subscribed gyro slot.
C27_SelectedGyroInRange ==
    /\ [](/\ 0 <= mc._selected_gyro
          /\ mc._selected_gyro < mc._gyro_count
          /\ 1 <= mc._gyro_count
          /\ mc._gyro_count <= MAX_GYRO_COUNT
          /\ (pc # "returned" => SelectedGyroSubscribed))
    /\ [][ /\ mc'._gyro_count = mc._gyro_count
           /\ (op' = "sample" /\ mc'._sensor_correction.selected_gyro_instance >= mc._gyro_count)
                 => mc'._selected_gyro = mc._selected_gyro
           /\ (op' = "sample" /\ mc'._sensor_correction.selected_gyro_instance < mc._gyro_count)
                 => mc'._selected_gyro = mc'._sensor_correction.selected_gyro_instance
           /\ (pc = "head" /\ pc' = "wait") => SelectedGyroSubscribed
           /\ op' = "sample" => SelectedGyroSubscribed ]_vars

\* with two gyros subscribed and the second one selected, a sensor-correction message
\* naming an instance beyond the gyro count was taken into the cache and the selection
\* stayed on the second gyro
C27_Witness ==
    /\ op = "sample"
    /\ mc._gyro_count = 2
    /\ arrived.sensor_correction # NoMsg
    /\ mc._sensor_correction.selected_gyro_instance >= mc._gyro_count
    /\ mc._selected_gyro = 1

====
